---- MODULE Spec2Model ----
(***************************************************************************)
(* A model of TSOS.  The disk system device driver                         *)
(* (DeviceDriverDiskSystem) is a TSB-addressed store of records            *)
(* "active header data" kept in sessionStorage, with a directory on track  *)
(* 0 and chained data blocks on the other tracks.  The memory manager      *)
(* loads programs into partitions of the memory or, when none is free,     *)
(* into swap files on the disk; the shell commands and the clock pulse     *)
(* drive the scheduler and the CPU.                                        *)
(*                                                                         *)
(* Strings are sequences of character codes; the data field of a record    *)
(* is a sequence of hexadecimal digits (two per character).                *)
(***************************************************************************)
EXTENDS Integers, Sequences, FiniteSets, TLC

VARIABLES disk, isFormatted, op, ret, nops

\* The memory, the memory manager, the CPU and the scheduler's ready queue.
VARIABLES memory, memoryAccessor, registeredProcesses, processIdCounter,
          cpu, scheduler

osvars == <<memory, memoryAccessor, registeredProcesses, processIdCounter,
            cpu, scheduler>>

vars == <<disk, isFormatted, op, ret, nops, osvars>>

(***************************************************************************)
(* Geometry and bounds.  The driver uses 4 tracks of 8 sectors of 8 blocks *)
(* and 120 hexadecimal characters (60 bytes) of data per record; the model *)
(* is checked on a smaller disk.                                           *)
(***************************************************************************)
trackMax == 3
sectorMax == 2
blockMax == 2
DataBytes == 2
MaxOps == 5
MaxSteps == 5
MaxPulses == 24
MaxProcesses == 2

diskDataLength == 2 * DataBytes

Addrs == (0..(trackMax - 1)) \X (0..(sectorMax - 1)) \X (0..(blockMax - 1))
NumRecords == trackMax * sectorMax * blockMax
NumDataBlocks == (trackMax - 1) * sectorMax * blockMax
MBR == <<0, 0, 0>>

\* Position of an address in TSB (lexicographic) order, the order of the
\* nested track/sector/block loops.
TSBIndex(a) == (a[1] * sectorMax * blockMax) + (a[2] * blockMax) + a[3]

\* The addresses in TSB order, and the first address of a set in that order
\* (<< >> when the set has none): what a scan with a break finds.
TSBSeq == [i \in 1..(trackMax * sectorMax * blockMax) |->
              <<(i - 1) \div (sectorMax * blockMax),
                ((i - 1) \div blockMax) % sectorMax,
                (i - 1) % blockMax>>]

RECURSIVE FirstFrom(_, _)
FirstFrom(S, i) ==
    IF i > Len(TSBSeq) THEN << >>
    ELSE IF TSBSeq[i] \in S THEN TSBSeq[i]
    ELSE FirstFrom(S, i + 1)

FirstTSB(S) == FirstFrom(S, 1)

h000 == <<0, 0, 0>>
h999 == <<9, 9, 9>>

\* What sessionStorage.getItem returns for a key that was never set.
Null == [active |-> -1, header |-> << >>, data |-> << >>]
\* The data field of a record that was written with two fields only.
Undefined == <<-1>>

zeroData == [i \in 1..diskDataLength |-> 0]
zeroString == [active |-> 0, header |-> h000, data |-> zeroData]
masterBootRecordString == [active |-> 1, header |-> h000, data |-> zeroData]

\* header.charAt(0) + ':' + header.charAt(1) + ':' + header.charAt(2)
HeaderAddress(h) == IF Len(h) = 3 THEN h ELSE << >>

getItem(d, a) == IF a \in Addrs THEN d[a] ELSE Null

(***************************************************************************)
(* Ascii.convertStringToAscii / convertAsciiToString                       *)
(***************************************************************************)
\* Two hexadecimal digits for every character of the string.
convertStringToAscii(s) ==
    [i \in 1..(2 * Len(s)) |->
        IF i % 2 = 1 THEN s[(i + 1) \div 2] \div 16 ELSE s[i \div 2] % 16]

RECURSIVE convertAsciiToString(_)
convertAsciiToString(h) ==
    IF Len(h) < 2 THEN << >>
    ELSE LET c == (h[1] * 16) + h[2]
             rest == convertAsciiToString(SubSeq(h, 3, Len(h)))
         IN IF c = 0 THEN rest ELSE <<c>> \o rest

\* for (let i = ascii.length; i < n; i++) ascii += '0'
PadTo(h, n) == IF Len(h) >= n THEN h ELSE h \o [i \in 1..(n - Len(h)) |-> 0]

startsWith(s, p) == Len(p) <= Len(s) /\ SubSeq(s, 1, Len(p)) = p

\* /^0+$/.test(s)
OnlyZeros(s) == Len(s) >= 1 /\ \A i \in 1..Len(s) : s[i] = 0

(***************************************************************************)
(* Results of a call: the store it leaves and how it ended.                *)
(***************************************************************************)
Res(d, st) == [disk |-> d, status |-> st, out |-> << >>, names |-> << >>]

\* checkIfFormatted without its test: the call goes on.
checkIfFormatted_Skipped(fmt) == "ok"

checkIfFormatted(fmt) == IF fmt THEN "ok" ELSE "NotFormatted"

\* getItem returns null for the first key a scan asks for (0:0:0): the
\* store holds no record before the first format.
Absent(d) == d[MBR] = Null

(***************************************************************************)
(* format and formatQuick                                                  *)
(***************************************************************************)
\* format without the branch for the master boot record.
format_NoBootRecord(d) == [a \in Addrs |-> zeroString]

format(d) ==
    [a \in Addrs |-> IF a[1] + a[2] + a[3] = 0 THEN masterBootRecordString
                     ELSE zeroString]

\* values = getItem(key).split(' '); values[0] = flag; values[1] = '000';
\* a record written with two fields keeps having two.
formatQuick(d, fmt) ==
    [a \in Addrs |->
        LET flag == IF a[1] + a[2] + a[3] = 0 THEN 1 ELSE 0
        IN IF fmt THEN [d[a] EXCEPT !.active = flag, !.header = h000]
           ELSE [active |-> flag, header |-> h000, data |-> Undefined]]

(***************************************************************************)
(* Directory lookup                                                        *)
(***************************************************************************)
DirAddrs == {a \in Addrs : a[1] = 0}
DataAddrs == {a \in Addrs : a[1] >= 1}

\* directoryEntryValues[2].startsWith(asciiFilename) &&
\*   /^0+$/.test(directoryEntryValues[2].substring(asciiFilename.length))
MatchesFilename(data, asciiFilename) ==
    /\ startsWith(data, asciiFilename)
    /\ OnlyZeros(SubSeq(data, Len(asciiFilename) + 1, Len(data)))

\* The first active directory entry, in TSB order, at which the lookup loop
\* stops: either it matches, or it has no data field and the startsWith
\* call on it throws.  << >> when the loop runs to its end.
LookupStop(d, filename) ==
    LET asciiFilename == convertStringToAscii(filename)
    IN FirstTSB({a \in DirAddrs :
                    /\ d[a].active = 1
                    /\ \/ d[a].data = Undefined
                       \/ MatchesFilename(d[a].data, asciiFilename)})

\* [status, address]: the colon-delineated header of the matching entry.
getFileAddressByFilename(d, filename) ==
    LET a == LookupStop(d, filename)
    IN IF a = << >> THEN [status |-> "NotFound", address |-> << >>]
       ELSE IF d[a].data = Undefined THEN [status |-> "TypeError", address |-> << >>]
       ELSE [status |-> "ok", address |-> HeaderAddress(d[a].header)]

\* [status, address]: the address of the matching entry itself.
getDirectoryAddressByFilename(d, filename) ==
    LET a == LookupStop(d, filename)
    IN IF a = << >> THEN [status |-> "NotFound", address |-> << >>]
       ELSE IF d[a].data = Undefined THEN [status |-> "TypeError", address |-> << >>]
       ELSE [status |-> "ok", address |-> a]

(***************************************************************************)
(* deactivateUnreferencedBlocks: recursion first, then the write of the    *)
(* copy of the record read before the recursion.                           *)
(***************************************************************************)
RECURSIVE deactivateUnreferencedBlocks(_, _, _)
deactivateUnreferencedBlocks(d, blockAddress, fuel) ==
    IF getItem(d, blockAddress) = Null THEN Res(d, "TypeError")
    ELSE IF fuel = 0 THEN Res(d, "RangeError")
    ELSE LET values == d[blockAddress]
             r == IF values.header # h000 /\ values.header # h999
                  THEN deactivateUnreferencedBlocks(d, HeaderAddress(values.header), fuel - 1)
                  ELSE Res(d, "ok")
         IN IF r.status # "ok" THEN Res(d, r.status)
            ELSE Res([r.disk EXCEPT ![blockAddress] = [values EXCEPT !.active = 0]], "ok")

(***************************************************************************)
(* create                                                                  *)
(***************************************************************************)
create(d, fmt, filename) ==
    IF checkIfFormatted(fmt) # "ok" THEN Res(d, checkIfFormatted(fmt))
    ELSE IF Absent(d) THEN Res(d, "TypeError")
    ELSE
    LET asciiFilename == PadTo(convertStringToAscii(filename), diskDataLength)
        inUse == \E a \in DirAddrs : d[a].active = 1 /\ d[a].data = asciiFilename
        header == FirstTSB({a \in DataAddrs : d[a].active = 0})
        entry == FirstTSB({a \in DirAddrs : d[a].active = 0})
        d1 == IF entry = << >> THEN d
              ELSE [d EXCEPT ![entry] = [active |-> 1, header |-> header,
                                         data |-> asciiFilename]]
        fileAddress == HeaderAddress(header)
    IN IF inUse THEN Res(d, "NameInUse")
       ELSE IF getItem(d1, fileAddress) = Null THEN Res(d1, "TypeError")
       ELSE Res([d1 EXCEPT ![fileAddress] =
                    [d1[fileAddress] EXCEPT !.active = 1, !.header = h999]], "ok")

(***************************************************************************)
(* read                                                                    *)
(***************************************************************************)
\* The do/while loop of read; a walk longer than the number of records has
\* come back to a record it read before and never ends.
RECURSIVE readLoop(_, _, _, _)
readLoop(d, blockAddress, fileContents, fuel) ==
    IF getItem(d, blockAddress) = Null THEN Res(d, "TypeError")
    ELSE IF d[blockAddress].data = Undefined THEN Res(d, "TypeError")
    ELSE IF fuel = 0 THEN Res(d, "Diverge")
    ELSE LET blockContents == d[blockAddress]
             contents == fileContents \o convertAsciiToString(blockContents.data)
         IN IF blockContents.header = h999
            THEN [disk |-> d, status |-> "ok", out |-> contents, names |-> << >>]
            ELSE readLoop(d, HeaderAddress(blockContents.header), contents, fuel - 1)

read(d, fmt, filename) ==
    IF checkIfFormatted(fmt) # "ok" THEN Res(d, checkIfFormatted(fmt))
    ELSE LET fa == getFileAddressByFilename(d, filename)
         IN IF fa.status # "ok" THEN Res(d, fa.status)
            ELSE readLoop(d, fa.address, << >>, NumRecords + 1)

(***************************************************************************)
(* write                                                                   *)
(***************************************************************************)
\* Math.ceil(asciiData.length / diskDataLength)
BlocksToWrite(asciiData) == (Len(asciiData) + diskDataLength - 1) \div diskDataLength

\* The labelled loop findNextBlock: the track loop starts at the current
\* track; the sector loop starts at the current sector on the current track
\* and at 0 on the others; the block loop starts after the current block in
\* every sector whose number is the current sector's, and at 0 in the others.
findNextBlock(d, blockAddress) ==
    FirstTSB({a \in Addrs :
                /\ a[1] >= blockAddress[1]
                /\ a[2] >= (IF a[1] = blockAddress[1] THEN blockAddress[2] ELSE 0)
                /\ a[3] >= (IF a[2] = blockAddress[2] THEN blockAddress[3] + 1 ELSE 0)
                /\ d[a].active = 0})

\* Iteration i (from 0) of the loop over the blocks to write.
RECURSIVE writeLoop(_, _, _, _, _)
writeLoop(d, blockAddress, asciiData, i, blocksToWrite) ==
    IF i >= blocksToWrite THEN Res(d, "ok")
    ELSE IF getItem(d, blockAddress) = Null THEN Res(d, "TypeError")
    ELSE
    LET chunk == SubSeq(asciiData, (i * diskDataLength) + 1,
                        (i * diskDataLength) + diskDataLength)
        values == [d[blockAddress] EXCEPT !.active = 1, !.data = chunk]
    IN IF blocksToWrite > i + 1
       THEN LET nextBlockAddress == findNextBlock(d, blockAddress)
            IN IF nextBlockAddress = << >> THEN Res(d, "NoSpace")
               ELSE writeLoop([d EXCEPT ![blockAddress] =
                                  [values EXCEPT !.header = nextBlockAddress]],
                              nextBlockAddress, asciiData, i + 1, blocksToWrite)
       ELSE LET r == IF values.header # h000 /\ values.header # h999
                     THEN deactivateUnreferencedBlocks(d, HeaderAddress(values.header),
                                                      NumRecords + 1)
                     ELSE Res(d, "ok")
            IN IF r.status # "ok" THEN Res(d, r.status)
               ELSE Res([r.disk EXCEPT ![blockAddress] =
                            [values EXCEPT !.header = h999]], "ok")

write(d, fmt, filename, data) ==
    IF checkIfFormatted(fmt) # "ok" THEN Res(d, checkIfFormatted(fmt))
    ELSE
    LET fa == getFileAddressByFilename(d, filename)
        asciiData == convertStringToAscii(data)
        blocksToWrite == BlocksToWrite(asciiData)
    IN IF fa.status # "ok" THEN Res(d, fa.status)
       ELSE writeLoop(d, fa.address,
                      PadTo(asciiData, blocksToWrite * diskDataLength),
                      0, blocksToWrite)

(***************************************************************************)
(* delete, copy, rename, ls                                                *)
(***************************************************************************)
delete(d, fmt, filename) ==
    IF checkIfFormatted(fmt) # "ok" THEN Res(d, checkIfFormatted(fmt))
    ELSE
    LET da == getDirectoryAddressByFilename(d, filename)
        fa == getFileAddressByFilename(d, filename)
    IN IF da.status # "ok" THEN Res(d, da.status)
       ELSE IF fa.status # "ok" THEN Res(d, fa.status)
       ELSE LET d1 == [d EXCEPT ![da.address].active = 0]
                r == deactivateUnreferencedBlocks(d1, fa.address, NumRecords + 1)
            IN IF r.status # "ok" THEN Res(d1, r.status) ELSE r

copy(d, fmt, existingFilename, newFilename) ==
    IF checkIfFormatted(fmt) # "ok" THEN Res(d, checkIfFormatted(fmt))
    ELSE
    LET r1 == read(d, fmt, existingFilename)
        r2 == create(d, fmt, newFilename)
        r3 == write(r2.disk, fmt, newFilename, r1.out)
    IN IF r1.status # "ok" THEN Res(d, r1.status)
       ELSE IF r2.status # "ok" THEN Res(r2.disk, r2.status)
       ELSE Res(r3.disk, r3.status)

rename(d, fmt, previousFilename, newFilename) ==
    IF checkIfFormatted(fmt) # "ok" THEN Res(d, checkIfFormatted(fmt))
    ELSE
    LET da == getDirectoryAddressByFilename(d, previousFilename)
        asciiFilename == PadTo(convertStringToAscii(newFilename), diskDataLength)
    IN IF da.status # "ok" THEN Res(d, da.status)
       ELSE Res([d EXCEPT ![da.address].data = asciiFilename], "ok")

\* The directory addresses in TSB order, as the sector/block loops visit them.
DirSeq == [i \in 1..(sectorMax * blockMax) |->
              <<0, (i - 1) \div blockMax, (i - 1) % blockMax>>]

RECURSIVE lsLoop(_, _)
lsLoop(d, i) ==
    IF i > Len(DirSeq) THEN << >>
    ELSE LET e == d[DirSeq[i]]
             filename == convertAsciiToString(e.data)
         IN IF e.active = 1 /\ filename # << >>
            THEN <<filename>> \o lsLoop(d, i + 1)
            ELSE lsLoop(d, i + 1)

ls(d, fmt) ==
    IF checkIfFormatted(fmt) # "ok" THEN Res(d, checkIfFormatted(fmt))
    ELSE IF Absent(d) THEN Res(d, "TypeError")
    ELSE IF \E a \in DirAddrs : d[a].active = 1 /\ d[a].data = Undefined
    THEN Res(d, "TypeError")
    ELSE [disk |-> d, status |-> "ok", out |-> << >>, names |-> lsLoop(d, 1)]

(***************************************************************************)
(* Memory and the memory accessor: a byte array cut into partitions of     *)
(* limitRegister bytes, each starting at one of the addresses of           *)
(* Partitions.  The array is kept as the function from the addresses whose *)
(* byte is not 0x00 to their bytes; every other address of MemoryAddrs     *)
(* holds 0x00.                                                             *)
(***************************************************************************)
limitRegister == 256
defaultPriority == 32
partitionCount == 3
defaultQuantum == 2

MemoryAddrs == 0..((partitionCount * limitRegister) - 1)

\* _Memory.partitions: the base address of every partition, in order.
Partitions == [i \in 1..partitionCount |-> (i - 1) * limitRegister]

\* _MemoryAccessor.readImmediate(address); -1 stands for the undefined a
\* read outside the byte array gives.
readImmediate(m, address) ==
    IF address \notin MemoryAddrs THEN -1
    ELSE IF address \in DOMAIN m THEN m[address]
    ELSE 0

\* The array with the byte at one address replaced.
Store(m, address, value) ==
    IF value = 0 THEN [a \in DOMAIN m \ {address} |-> m[a]]
    ELSE [a \in DOMAIN m \cup {address} |-> IF a = address THEN value ELSE m[a]]

\* The addresses of [base, base + limit) that hold a byte other than 0x00.
Used(m, base, limit) == {a \in DOMAIN m : a >= base /\ a < base + limit}

\* _MemoryAccessor.writeProgram(program, base, limit): the image from base
\* on, 0x00 in the rest of [base, base + limit).
writeProgram(m, program, base, limit) ==
    LET image == {a \in {(base + j) - 1 : j \in 1..Len(program)} :
                     /\ a \in MemoryAddrs
                     /\ a < base + limit
                     /\ program[(a - base) + 1] # 0}
    IN [a \in (DOMAIN m \ Used(m, base, limit)) \cup image |->
           IF a \in image THEN program[(a - base) + 1] ELSE m[a]]

\* _MemoryAccessor.clearProgram(base, limit): 0x00 in [base, base + limit).
clearProgram(m, base, limit) ==
    [a \in DOMAIN m \ Used(m, base, limit) |-> m[a]]

(***************************************************************************)
(* Process control blocks and the memory manager                           *)
(***************************************************************************)
\* new ProcessControlBlock(processId, address, limit, location, priority)
\* The registers start at 0 and the state at RESIDENT; a register holds the
\* characters parseInt reads, "0" for the number 0.
ProcessControlBlock(processId, address, location, priority) ==
    [processId |-> processId, startingAddress |-> address,
     location |-> location, priority |-> priority, state |-> "RESIDENT",
     accumulator |-> <<48>>, instructionRegister |-> <<48>>,
     programCounter |-> <<48>>, xRegister |-> <<48>>, yRegister |-> <<48>>,
     zFlag |-> <<48>>]

\* process.updateGUI(state): the process control block takes the state.
updateGUI(pcb, state) == [pcb EXCEPT !.state = state]

\* hexLog(value, length): the hexadecimal digits of a number, in upper case,
\* with zeros in front up to the length.
HexChar(n) == IF n < 10 THEN 48 + n ELSE 55 + n

RECURSIVE HexDigits(_)
HexDigits(n) ==
    IF n < 16 THEN <<HexChar(n)>> ELSE HexDigits(n \div 16) \o <<HexChar(n % 16)>>

hexLog(value, length) ==
    LET h == HexDigits(value)
    IN IF Len(h) >= length THEN h ELSE [i \in 1..(length - Len(h)) |-> 48] \o h

\* parseInt(string, 16) of a string of hexadecimal digits.
HexValue(c) == IF c <= 57 THEN c - 48 ELSE c - 55

RECURSIVE parseInt16(_)
parseInt16(str) ==
    IF str = << >> THEN 0
    ELSE (parseInt16(SubSeq(str, 1, Len(str) - 1)) * 16) + HexValue(str[Len(str)])

\* programValues.join(' '): two characters for every byte and a space
\* between one byte and the next.
JoinHex(program) ==
    [j \in 1..((3 * Len(program)) - (IF program = << >> THEN 0 ELSE 1)) |->
        IF j % 3 = 0 THEN 32 ELSE hexLog(program[((j - 1) \div 3) + 1], 2)[j % 3]]

\* `.process${processID}.swp`: the name of the swap file of a process.  The
\* data field of the model's disk holds DataBytes characters, so the name is
\* cut down to the part that tells the swap files apart, the digit of the
\* process id.
SwapFilename(processID) == <<48 + processID>>

\* The first partition, in the order of Partitions, whose first byte reads
\* 0x00; 0 when there is none.
RECURSIVE FirstFreePartition(_, _)
FirstFreePartition(m, i) ==
    IF i > Len(Partitions) THEN 0
    ELSE IF readImmediate(m, Partitions[i]) = 0 THEN i
    ELSE FirstFreePartition(m, i + 1)

\* What a call of the memory manager leaves: memory, the registered
\* processes, the process id counter, the disk, and how the call ended.
MMRes(m, rp, ctr, d, st) ==
    [memory |-> m, registeredProcesses |-> rp, processIdCounter |-> ctr,
     disk |-> d, status |-> st]

allocateMemory_DiskInRAM(m, rp, ctr, d, fmt, program, priority) ==
    LET i == FirstFreePartition(m, 1)
    IN IF i # 0
       THEN IF Len(program) > limitRegister
            THEN MMRes(m, rp, ctr, d, "ProgramTooLarge")
            ELSE LET baseRegister == Partitions[i]
                 IN MMRes(writeProgram(m, program, baseRegister, limitRegister),
                          Append(rp, ProcessControlBlock(ctr, baseRegister, "RAM", priority)),
                          ctr + 1, d, "ok")
       ELSE LET processID == ctr
                processFilename == SwapFilename(processID)
                c == create(d, fmt, processFilename)
                pcb == ProcessControlBlock(processID, -1, "RAM", priority)
                w == write(c.disk, fmt, processFilename, JoinHex(program))
            IN IF c.status # "ok" THEN MMRes(m, rp, ctr + 1, c.disk, c.status)
               ELSE MMRes(m, Append(rp, pcb), ctr + 1, w.disk, w.status)

\* allocateMemory(program, priority = this.defaultPriority)
allocateMemory(m, rp, ctr, d, fmt, program, priority) ==
    LET i == FirstFreePartition(m, 1)
    IN IF i # 0
       THEN IF Len(program) > limitRegister
            THEN MMRes(m, rp, ctr, d, "ProgramTooLarge")
            ELSE LET baseRegister == Partitions[i]
                 IN MMRes(writeProgram(m, program, baseRegister, limitRegister),
                          Append(rp, ProcessControlBlock(ctr, baseRegister, "RAM", priority)),
                          ctr + 1, d, "ok")
       ELSE LET processID == ctr
                processFilename == SwapFilename(processID)
                c == create(d, fmt, processFilename)
                pcb == ProcessControlBlock(processID, -1, "DSK", priority)
                w == write(c.disk, fmt, processFilename, JoinHex(program))
            IN IF c.status # "ok" THEN MMRes(m, rp, ctr + 1, c.disk, c.status)
               ELSE MMRes(m, Append(rp, pcb), ctr + 1, w.disk, w.status)

deallocateMemory_NoClear(m, rp, i) ==
    [memory |-> m,
     registeredProcesses |-> [rp EXCEPT ![i] = updateGUI(rp[i], "TERMINATED")]]

\* deallocateMemory(process), process the i-th registered process.
deallocateMemory(m, rp, i) ==
    [memory |-> clearProgram(m, rp[i].startingAddress, limitRegister),
     registeredProcesses |-> [rp EXCEPT ![i] = updateGUI(rp[i], "TERMINATED")]]

hasAvailableMemoryPartition(m) == FirstFreePartition(m, 1) # 0

(***************************************************************************)
(* The CPU (Cpu, host/cpu.js).  A machine is what a pulse works on: the    *)
(* CPU, the memory, the memory accessor's address register and the         *)
(* registered processes.  currentProcess is the position of the current    *)
(* process in registeredProcesses, 0 before the first dispatch.            *)
(***************************************************************************)
\* The registers as the constructor and init() set them.
Cpu ==
    [accumulator |-> 0, instructionRegister |-> 0, programCounter |-> 0,
     xRegister |-> 0, yRegister |-> 0, carryFlag |-> 0, zFlag |-> 0,
     currentStep |-> 0, isExecuting |-> FALSE, currentProcess |-> 0]

\* init(): the registers and the step are reset; isExecuting and
\* currentProcess are left alone.
init(c) == [Cpu EXCEPT !.isExecuting = c.isExecuting,
                       !.currentProcess = c.currentProcess]

Machine(c, m, ma, rp, sch, d) ==
    [cpu |-> c, memory |-> m, memoryAccessor |-> ma, registeredProcesses |-> rp,
     scheduler |-> sch, disk |-> d, status |-> "ok", out |-> << >>]

\* _StdOut.putText(text): the text joins what the console shows.  out is the
\* text the CPU has put on the console since the machine was taken.
putText(k, text) == [k EXCEPT !.out = @ \o text]

\* this.instructionSet: the op codes and their numbers of operands (0xFF
\* when the number depends on the X register).
instructionSet ==
    <<<<0, 109, 138, 141, 152, 160, 162, 168, 169, 170, 172, 173, 174, 208,
        234, 236, 238, 255>>,
      <<0, 2, 0, 2, 0, 1, 1, 0, 1, 0, 2, 2, 2, 1, 0, 2, 2, 255>>>>

\* this.currentProcess.startingAddress
startingAddress(k) == k.registeredProcesses[k.cpu.currentProcess].startingAddress

\* _MemoryAccessor.readImmediate(this.programCounter + startingAddress)
readAtPC(k) == readImmediate(k.memory, k.cpu.programCounter + startingAddress(k))

\* The address register of the memory accessor: (highOrder << 8) | lowOrder.
MAR(ma) == (ma.highOrderByte * 256) + ma.lowOrderByte

\* _MemoryAccessor.read() and _MemoryAccessor.write(value)
accessorRead(k) == readImmediate(k.memory, MAR(k.memoryAccessor))

accessorWrite(k, value) ==
    IF MAR(k.memoryAccessor) \in MemoryAddrs
    THEN [k EXCEPT !.memory = Store(@, MAR(k.memoryAccessor), value)]
    ELSE k

haltProgram_NoDeallocate(k) ==
    [k EXCEPT !.cpu = init([k.cpu EXCEPT !.isExecuting = FALSE])]

\* haltProgram(): isExecuting = false, deallocateMemory(currentProcess),
\* init().
haltProgram(k) ==
    LET d == deallocateMemory(k.memory, k.registeredProcesses, k.cpu.currentProcess)
    IN [k EXCEPT !.cpu = init([k.cpu EXCEPT !.isExecuting = FALSE]),
                 !.memory = d.memory,
                 !.registeredProcesses = d.registeredProcesses]

fetch(k) ==
    [k EXCEPT !.cpu.instructionRegister = readAtPC(k),
              !.cpu.programCounter = @ + 1,
              !.cpu.currentStep = @ + 1]

\* The position of the instruction register's op code in instructionSet[0],
\* 0 when it is not there.
InstructionIndex(ir) ==
    IF \E i \in 1..Len(instructionSet[1]) : instructionSet[1][i] = ir
    THEN CHOOSE i \in 1..Len(instructionSet[1]) : instructionSet[1][i] = ir
    ELSE 0

\* Number.toString(): the decimal digits of a number.
RECURSIVE toString(_)
toString(n) ==
    IF n < 10 THEN <<48 + n>> ELSE toString(n \div 10) \o <<48 + (n % 10)>>

invalidInstructionText_Decimal(ir) ==
    <<69, 82, 82, 58, 32>> \o toString(ir) \o
    <<32, 105, 115, 32, 110, 111, 116, 32, 97, 32, 118, 97, 108, 105, 100, 32,
      105, 110, 115, 116, 114, 117, 99, 116, 105, 111, 110, 46, 32, 72, 97,
      108, 116, 105, 110, 103, 32, 112, 114, 111, 103, 114, 97, 109, 46, 46,
      46>>

\* 'ERR: ' and ' is not a valid instruction. Halting program...', in
\* character codes; the instruction register stands between them.
invalidInstructionText(ir) ==
    <<69, 82, 82, 58, 32>> \o hexLog(ir, 2) \o
    <<32, 105, 115, 32, 110, 111, 116, 32, 97, 32, 118, 97, 108, 105, 100, 32,
      105, 110, 115, 116, 114, 117, 99, 116, 105, 111, 110, 46, 32, 72, 97,
      108, 116, 105, 110, 103, 32, 112, 114, 111, 103, 114, 97, 109, 46, 46,
      46>>

decode(k) ==
    LET ir == k.cpu.instructionRegister
        i == InstructionIndex(ir)
        n == instructionSet[2][i]
        numOperands == IF n = 255 THEN (IF k.cpu.xRegister = 3 THEN 2 ELSE 0) ELSE n
    IN IF i = 0 THEN haltProgram(putText(k, invalidInstructionText(ir)))
       ELSE IF numOperands = 0 THEN [k EXCEPT !.cpu.currentStep = @ + 2]
       ELSE IF numOperands = 1
       THEN LET k1 == CASE ir = 160 -> [k EXCEPT !.cpu.yRegister = readAtPC(k),
                                                  !.cpu.currentStep = 6]
                        [] ir = 162 -> [k EXCEPT !.cpu.xRegister = readAtPC(k),
                                                  !.cpu.currentStep = 6]
                        [] ir = 169 -> [k EXCEPT !.cpu.accumulator = readAtPC(k),
                                                  !.cpu.currentStep = 6]
                        [] ir = 208 -> [k EXCEPT !.memoryAccessor.lowOrderByte = readAtPC(k),
                                                  !.cpu.currentStep = @ + 2]
                        [] OTHER -> k
            IN [k1 EXCEPT !.cpu.programCounter = @ + 1]
       ELSE [k EXCEPT !.memoryAccessor.lowOrderByte = readAtPC(k),
                      !.cpu.programCounter = @ + 1,
                      !.cpu.currentStep = @ + 1]

\* setHighOrder(readImmediate(...) + (startingAddress / 0x100))
decode2(k) ==
    [k EXCEPT !.memoryAccessor.highOrderByte = readAtPC(k) + (startingAddress(k) \div 256),
              !.cpu.programCounter = @ + 1,
              !.cpu.currentStep = @ + 1]

\* The bytes read from an address on up to the first byte that reads 0x00:
\* the characters the loops of the system call put on the console.  A read
\* past the last address of the memory never gives 0x00; the sequence then
\* ends with -2.
RECURSIVE stringAt(_, _)
stringAt(m, address) ==
    IF address >= partitionCount * limitRegister THEN <<-2>>
    ELSE IF readImmediate(m, address) = 0 THEN << >>
    ELSE <<readImmediate(m, address)>> \o stringAt(m, address + 1)

\* while (readImmediate(address + startingAddress) !== 0x00) putText(...):
\* the loop never ends when no byte from the address on reads 0x00.
printString(k, address) ==
    LET str == stringAt(k.memory, address + startingAddress(k))
    IN IF str # << >> /\ str[Len(str)] = -2
       THEN [k EXCEPT !.status = "Diverge"]
       ELSE putText(k, str)

\* Number("0x" + highOrderByte.toString(16) + lowOrderByte.toString(16)):
\* the digits of the low order byte are not padded, so a low order byte
\* under 0x10 gives one digit.  A negative byte gives no number.
desiredAddress(ma) ==
    IF ma.highOrderByte < 0 \/ ma.lowOrderByte < 0 THEN -1
    ELSE (ma.highOrderByte * (IF ma.lowOrderByte < 16 THEN 16 ELSE 256))
         + ma.lowOrderByte

\* case 0xFF of execute(): the system call, on the X register.
systemCall(k) ==
    CASE k.cpu.xRegister = 1 -> putText(k, toString(k.cpu.yRegister))
      [] k.cpu.xRegister = 2 -> printString(k, k.cpu.yRegister)
      [] k.cpu.xRegister = 3 ->
             IF desiredAddress(k.memoryAccessor) < 0
             THEN [k EXCEPT !.status = "Diverge"]
             ELSE printString(k, desiredAddress(k.memoryAccessor))
      [] OTHER -> k

addWithCarry_NoWrap(k) ==
    [k EXCEPT !.cpu.accumulator = @ + accessorRead(k)]

\* case 0x6D of execute(): the byte read is added to the accumulator; a sum
\* above 0xFF loses 0x100 and sets the carry flag.
addWithCarry(k) ==
    LET sum == k.cpu.accumulator + accessorRead(k)
    IN IF sum > 255
       THEN [k EXCEPT !.cpu.accumulator = sum - 256, !.cpu.carryFlag = 1]
       ELSE [k EXCEPT !.cpu.accumulator = sum]

execute(k) ==
    LET ir == k.cpu.instructionRegister
        low == k.memoryAccessor.lowOrderByte
        k1 == CASE ir = 109 -> addWithCarry(k)
                [] ir = 138 -> [k EXCEPT !.cpu.accumulator = k.cpu.xRegister]
                [] ir = 141 -> accessorWrite(k, k.cpu.accumulator)
                [] ir = 152 -> [k EXCEPT !.cpu.accumulator = k.cpu.yRegister]
                [] ir = 168 -> [k EXCEPT !.cpu.yRegister = k.cpu.accumulator]
                [] ir = 170 -> [k EXCEPT !.cpu.xRegister = k.cpu.accumulator]
                [] ir = 172 -> [k EXCEPT !.cpu.yRegister = accessorRead(k)]
                [] ir = 173 -> [k EXCEPT !.cpu.accumulator = accessorRead(k)]
                [] ir = 174 -> [k EXCEPT !.cpu.xRegister = accessorRead(k)]
                [] ir = 208 -> IF k.cpu.zFlag = 0
                               THEN IF low <= 127
                                    THEN [k EXCEPT !.cpu.programCounter = @ + low]
                                    ELSE [k EXCEPT !.cpu.programCounter = @ - (256 - low)]
                               ELSE k
                [] ir = 236 -> [k EXCEPT !.cpu.zFlag =
                                   IF k.cpu.xRegister = accessorRead(k) THEN 1 ELSE 0]
                [] ir = 238 -> [k EXCEPT !.cpu.accumulator = accessorRead(k),
                                         !.cpu.currentStep = @ - 2]
                [] ir = 255 -> systemCall(k)
                [] OTHER -> k
    IN IF ir = 0 THEN haltProgram(k)
       ELSE [k1 EXCEPT !.cpu.currentStep = @ + 3]

\* 'ERR: Bounds violation - attempted to increment accumulator beyond 0xFF.
\* Halting program...', in character codes.
boundsViolationText ==
    <<69, 82, 82, 58, 32, 66, 111, 117, 110, 100, 115, 32, 118, 105, 111, 108,
      97, 116, 105, 111, 110, 32, 45, 32, 97, 116, 116, 101, 109, 112, 116,
      101, 100, 32, 116, 111, 32, 105, 110, 99, 114, 101, 109, 101, 110, 116,
      32, 97, 99, 99, 117, 109, 117, 108, 97, 116, 111, 114, 32, 98, 101, 121,
      111, 110, 100, 32, 48, 120, 70, 70, 46, 32, 72, 97, 108, 116, 105, 110,
      103, 32, 112, 114, 111, 103, 114, 97, 109, 46, 46, 46>>

execute2_Wrap(k) ==
    IF k.cpu.accumulator = 255
    THEN [k EXCEPT !.cpu.accumulator = 0, !.cpu.currentStep = @ + 1]
    ELSE [k EXCEPT !.cpu.accumulator = @ + 1, !.cpu.currentStep = @ + 1]

\* execute2(): the second phase of EE, with its test of the bounds.
execute2(k) ==
    IF k.cpu.accumulator = 255
    THEN [haltProgram(putText(k, boundsViolationText)) EXCEPT !.cpu.currentStep = 0]
    ELSE [k EXCEPT !.cpu.accumulator = @ + 1, !.cpu.currentStep = @ + 1]

writeBack_NoInterruptCheck(k) ==
    [accessorWrite(k, k.cpu.accumulator) EXCEPT !.cpu.currentStep = 0]

writeBack(k) ==
    [accessorWrite(k, k.cpu.accumulator) EXCEPT !.cpu.currentStep = @ + 1]

interruptCheck(k) == [k EXCEPT !.cpu.currentStep = 0]

\* The switch of pulse(): the step the CPU is at is taken.
stepOnce(k) ==
    LET step == k.cpu.currentStep
    IN CASE step = 0 -> fetch(k)
         [] step = 1 -> decode(k)
         [] step = 2 -> decode2(k)
         [] step = 3 -> execute(k)
         [] step = 4 -> execute2(k)
         [] step = 5 -> writeBack(k)
         [] step = 6 -> interruptCheck(k)
         [] OTHER -> k

\* The do/while loop of pulse(): one step, then again until the step is 0.
RECURSIVE pulseLoop(_)
pulseLoop(k) ==
    LET k1 == stepOnce(k)
    IN IF k1.cpu.currentStep # 0 THEN pulseLoop(k1) ELSE k1

getCpuState_Decimal(c) ==
    [accumulator |-> toString(c.accumulator),
     instructionRegister |-> toString(c.instructionRegister),
     programCounter |-> toString(c.programCounter),
     xRegister |-> toString(c.xRegister),
     yRegister |-> toString(c.yRegister),
     zFlag |-> toString(c.zFlag)]

\* getCpuState(): the registers as hexLog writes them.
getCpuState(c) ==
    [accumulator |-> hexLog(c.accumulator, 2),
     instructionRegister |-> hexLog(c.instructionRegister, 2),
     programCounter |-> hexLog(c.programCounter, 4),
     xRegister |-> hexLog(c.xRegister, 2),
     yRegister |-> hexLog(c.yRegister, 2),
     zFlag |-> hexLog(c.zFlag, 1)]

\* ProcessControlBlock.update(CPU): the process control block takes the
\* registers of getCpuState(), the accumulator, the instruction register,
\* the program counter, X, Y and the Z flag, in the order in which
\* getCpuState() lists them.
update(pcb, c) ==
    LET currentState == getCpuState(c)
    IN [pcb EXCEPT !.accumulator = currentState.accumulator,
                   !.instructionRegister = currentState.instructionRegister,
                   !.programCounter = currentState.programCounter,
                   !.xRegister = currentState.xRegister,
                   !.yRegister = currentState.yRegister,
                   !.zFlag = currentState.zFlag]

\* updatePCB(): currentProcess.update(this), then updateGUI with the state
\* the process has.
updatePCB(k) ==
    LET i == k.cpu.currentProcess
        pcb == update(k.registeredProcesses[i], k.cpu)
    IN [k EXCEPT !.registeredProcesses[i] = updateGUI(pcb, pcb.state)]

\* pulse(): the steps of one instruction, then updatePCB().
pulse(k) == updatePCB(pulseLoop(k))

\* initWithPCB(pcb), pcb the i-th registered process.
initWithPCB(c, rp, i) ==
    [c EXCEPT !.accumulator = parseInt16(rp[i].accumulator),
              !.instructionRegister = parseInt16(rp[i].instructionRegister),
              !.programCounter = parseInt16(rp[i].programCounter),
              !.xRegister = parseInt16(rp[i].xRegister),
              !.yRegister = parseInt16(rp[i].yRegister),
              !.carryFlag = 0,
              !.zFlag = parseInt16(rp[i].zFlag),
              !.currentProcess = i,
              !.currentStep = 0]

(***************************************************************************)
(* The CPU scheduler: the ready queue (positions in registeredProcesses),  *)
(* the algorithm, the quantum, the pulses the running process has had      *)
(* since its dispatch, and the processes in the order of their last        *)
(* dispatch.                                                               *)
(***************************************************************************)
Schedules == {"ROUND ROBIN", "FCFS", "PRIORITY"}

CpuScheduler(alg) ==
    [readyQueue |-> << >>, schedule |-> alg, quantum |-> defaultQuantum,
     quantumUsed |-> 0, dispatched |-> << >>]

Without(q, i) == SelectSeq(q, LAMBDA x : x # i)

\* The queue with process i put behind every process whose priority value
\* is not greater than its own.
RECURSIVE InsertByPriority(_, _, _)
InsertByPriority(q, rp, i) ==
    IF q = << >> THEN <<i>>
    ELSE IF rp[Head(q)].priority <= rp[i].priority
         THEN <<Head(q)>> \o InsertByPriority(Tail(q), rp, i)
         ELSE <<i>> \o q

\* enqueue(pcb): the process becomes READY and joins the queue, at the tail
\* or, under PRIORITY, in the order of the priorities.
enqueue(k, i) ==
    [k EXCEPT !.registeredProcesses[i] = updateGUI(@, "READY"),
              !.scheduler.readyQueue =
                  IF k.scheduler.schedule = "PRIORITY"
                  THEN InsertByPriority(@, k.registeredProcesses, i)
                  ELSE Append(@, i)]

\* extractProcess(pcb) and clearQueue()
extractProcess(k, i) == [k EXCEPT !.scheduler.readyQueue = Without(@, i)]

clearQueue(k) == [k EXCEPT !.scheduler.readyQueue = << >>]

\* The bytes of a partition up to its last byte that is not 0x00: the
\* program image.
ImageLength(m, base) ==
    LET used == {(a - base) + 1 : a \in Used(m, base, limitRegister)}
    IN IF used = {} THEN 0 ELSE CHOOSE n \in used : \A n2 \in used : n2 <= n

ProgramImage(m, base) ==
    [j \in 1..ImageLength(m, base) |-> readImmediate(m, base + j - 1)]

\* The bytes of a string of two-character hexadecimal tokens with spaces
\* between them.
RECURSIVE ParseTokens(_)
ParseTokens(str) ==
    IF Len(str) < 2 THEN << >>
    ELSE <<parseInt16(SubSeq(str, 1, 2))>> \o ParseTokens(SubSeq(str, 4, Len(str)))

\* The live RAM-resident processes other than i, the least recently
\* dispatched first: those never dispatched, in the order of registration,
\* then the others in the order of their last dispatch.
VictimOrder(k, i) ==
    LET live(j) == /\ j # i
                   /\ k.registeredProcesses[j].location = "RAM"
                   /\ k.registeredProcesses[j].state # "TERMINATED"
        never == SelectSeq([j \in 1..Len(k.registeredProcesses) |-> j],
                           LAMBDA j : live(j) /\ \A n \in 1..Len(k.scheduler.dispatched) :
                                                     k.scheduler.dispatched[n] # j)
    IN never \o SelectSeq(k.scheduler.dispatched, live)

\* Swap-out of process v: its program image goes to a new swap file, its
\* partition is cleared, the process control block flips to DSK.  c is the
\* outcome of the creation of the swap file, w of its writing.
swapOutEnd(k, v, w) ==
    IF w.status # "ok" THEN [k EXCEPT !.disk = w.disk, !.status = w.status]
    ELSE [k EXCEPT !.disk = w.disk,
                   !.memory = clearProgram(@, k.registeredProcesses[v].startingAddress,
                                           limitRegister),
                   !.registeredProcesses[v].location = "DSK",
                   !.registeredProcesses[v].startingAddress = -1]

swapOutWrite(k, fmt, v, c) ==
    IF c.status # "ok" THEN [k EXCEPT !.disk = c.disk, !.status = c.status]
    ELSE swapOutEnd(k, v,
             write(c.disk, fmt, SwapFilename(k.registeredProcesses[v].processId),
                   JoinHex(ProgramImage(k.memory,
                                        k.registeredProcesses[v].startingAddress))))

swapOut(k, fmt, v) ==
    swapOutWrite(k, fmt, v,
        create(k.disk, fmt, SwapFilename(k.registeredProcesses[v].processId)))

\* Room for a swap-in: the least recently dispatched of the victims is
\* swapped out when no partition is free.
makeRoom(k, fmt, victims) ==
    IF hasAvailableMemoryPartition(k.memory) THEN k
    ELSE IF victims = << >> THEN [k EXCEPT !.status = "NoSpace"]
    ELSE swapOut(k, fmt, Head(victims))

\* Swap-in of process i: a victim is swapped out when no partition is free;
\* the swap file is read, its program installed in the free partition, the
\* process control block flips to RAM and the swap file is deleted.  r is
\* the outcome of the reading of the swap file, del of its deletion.
swapInEnd(k, i, base, r, del) ==
    [k EXCEPT !.memory = writeProgram(@, ParseTokens(r.out), base, limitRegister),
              !.registeredProcesses[i].location = "RAM",
              !.registeredProcesses[i].startingAddress = base,
              !.disk = del.disk,
              !.status = del.status]

swapInRead(k, fmt, i, r) ==
    IF r.status # "ok" THEN [k EXCEPT !.status = r.status]
    ELSE swapInEnd(k, i, Partitions[FirstFreePartition(k.memory, 1)], r,
                   delete(k.disk, fmt, SwapFilename(k.registeredProcesses[i].processId)))

swapInRoom(k, fmt, i) ==
    IF k.status # "ok" THEN k
    ELSE swapInRead(k, fmt, i,
             read(k.disk, fmt, SwapFilename(k.registeredProcesses[i].processId)))

swapIn(k, fmt, i) == swapInRoom(makeRoom(k, fmt, VictimOrder(k, i)), fmt, i)

\* The head of the ready queue is taken, swapped in when it is on the disk,
\* its registers are loaded and it becomes the RUNNING process.
dispatchLoad(k, i) ==
    IF k.status # "ok" THEN k
    ELSE [k EXCEPT !.cpu = [initWithPCB(@, k.registeredProcesses, i)
                               EXCEPT !.isExecuting = TRUE],
                   !.registeredProcesses[i] = updateGUI(@, "RUNNING"),
                   !.scheduler.quantumUsed = 0,
                   !.scheduler.dispatched = Append(Without(@, i), i)]

dispatchHead(k, fmt, i) ==
    dispatchLoad(IF k.registeredProcesses[i].location = "DSK"
                 THEN swapIn(k, fmt, i) ELSE k, i)

dispatch(k, fmt) ==
    dispatchHead([k EXCEPT !.scheduler.readyQueue = Tail(@)], fmt,
                 Head(k.scheduler.readyQueue))

\* The running process goes back to the tail of the queue as READY, with the
\* registers of the CPU.
preempt(k) ==
    enqueue([k EXCEPT !.registeredProcesses[k.cpu.currentProcess] = update(@, k.cpu),
                      !.cpu.isExecuting = FALSE],
            k.cpu.currentProcess)

\* tick(): a dispatch when nothing runs (tickStart), one pulse of the CPU
\* (tickPulse), then the next dispatch when the process halted in the pulse
\* or used up its quantum (tickEnd, k1 the machine before the pulse and k2
\* after it).
tickStart(k, fmt) ==
    IF ~k.cpu.isExecuting /\ k.scheduler.readyQueue # << >>
    THEN dispatch(k, fmt) ELSE k

tickPulse(k) ==
    IF k.cpu.isExecuting
    THEN [pulse(k) EXCEPT !.scheduler.quantumUsed = @ + 1]
    ELSE k

tickEnd(k1, k2, fmt) ==
    IF k1.status # "ok" THEN k1
    ELSE IF k2.scheduler.readyQueue = << >> THEN k2
    ELSE IF k1.cpu.isExecuting /\ ~k2.cpu.isExecuting
         THEN tickStart(k2, fmt)
    ELSE IF /\ k2.cpu.isExecuting
            /\ k2.scheduler.schedule = "ROUND ROBIN"
            /\ k2.scheduler.quantumUsed = k2.scheduler.quantum
         THEN tickStart(preempt(k2), fmt)
    ELSE k2

tickRun(k1, fmt) == tickEnd(k1, tickPulse(k1), fmt)

tick(k, fmt) == tickRun(tickStart(k, fmt), fmt)

(***************************************************************************)
(* The kernel and the shell commands on processes                          *)
(***************************************************************************)
\* deallocateMemory on a machine.
deallocate(k, i) ==
    LET d == deallocateMemory(k.memory, k.registeredProcesses, i)
    IN [k EXCEPT !.memory = d.memory, !.registeredProcesses = d.registeredProcesses]

\* krnHaltProgramSilent(process): the running process is halted and
\* deallocated, the CPU reset; nothing when the process is not running.
krnHaltProgramSilent(k, i) ==
    IF i # 0 /\ k.registeredProcesses[i].state = "RUNNING"
    THEN [deallocate(k, i) EXCEPT !.cpu = init([k.cpu EXCEPT !.isExecuting = FALSE])]
    ELSE k

\* shellRun: registeredProcesses[processId]; a process that is not RESIDENT,
\* or no process at all, is an error that is caught.
shellRun(k, processId) ==
    LET i == processId + 1
    IN IF i > Len(k.registeredProcesses) THEN [k EXCEPT !.status = "TypeError"]
       ELSE IF k.registeredProcesses[i].state # "RESIDENT"
       THEN [k EXCEPT !.status = "NotAvailable"]
       ELSE enqueue(k, i)

\* The loop of shellRunAll, from the i-th registered process on.
RECURSIVE runAllLoop(_, _)
runAllLoop(k, i) ==
    IF i > Len(k.registeredProcesses) THEN k
    ELSE runAllLoop(IF k.registeredProcesses[i].state = "RESIDENT"
                    THEN enqueue(k, i) ELSE k, i + 1)

shellRunAll_FromSecond(k) == runAllLoop(k, 2)

\* shellRunAll: every RESIDENT process is enqueued, in the order of
\* registeredProcesses.
shellRunAll(k) == runAllLoop(k, 1)

\* The loop of shellClearMem.
RECURSIVE clearMemLoop(_, _)
clearMemLoop(k, i) ==
    IF i > Len(k.registeredProcesses) THEN k
    ELSE clearMemLoop(IF /\ k.registeredProcesses[i].state # "TERMINATED"
                         /\ k.registeredProcesses[i].location = "RAM"
                      THEN deallocate(k, i) ELSE k, i + 1)

shellClearMem(k) ==
    IF ~k.cpu.isExecuting THEN clearMemLoop(k, 1)
    ELSE [k EXCEPT !.status = "Running"]

shellKill(k, processId) ==
    LET i == processId + 1
    IN IF i > Len(k.registeredProcesses) THEN [k EXCEPT !.status = "TypeError"]
       ELSE IF k.registeredProcesses[i].state = "RUNNING" THEN krnHaltProgramSilent(k, i)
       ELSE IF k.registeredProcesses[i].state = "READY"
       THEN deallocate(extractProcess(k, i), i)
       ELSE k

\* The loop of shellKillAll.
RECURSIVE killAllLoop(_, _)
killAllLoop(k, i) ==
    IF i > Len(k.registeredProcesses) THEN k
    ELSE killAllLoop(IF k.registeredProcesses[i].state # "TERMINATED"
                     THEN deallocate(k, i) ELSE k, i + 1)

shellKillAll(k) ==
    killAllLoop(clearQueue(krnHaltProgramSilent(k, k.cpu.currentProcess)), 1)

(***************************************************************************)
(* Inputs of the calls                                                     *)
(***************************************************************************)
Chars(n, c) == [i \in 1..n |-> c]

\* Filenames given to the driver directly: the empty filename, two
\* one-character names ('a', 'b') and a name that fills the data field.
DriverFilenames == {<< >>, <<97>>, <<98>>, Chars(DataBytes, 97)}

\* Filenames the shell passes on (parseInput drops empty arguments): three
\* one-character names ('a', 'b', 'c') and a name that fills the data field.
ShellFilenames == {<<97>>, <<98>>, <<99>>, Chars(DataBytes, 97)}

Filenames == DriverFilenames \cup ShellFilenames

\* Programs the load command is given: 00 (halt); D0 FE (branch back to
\* itself for ever); and a program of one byte more than a partition holds.
Programs == {<<0>>, <<208, 254>>, [i \in 1..(limitRegister + 1) |-> 234]}

\* The priorities of load: none given (the default) and 1.
Priorities == {defaultPriority, 1}

\* Data of no chunk, one chunk, two chunks, and one chunk for every data
\* block of the disk ('x' characters).
DataStrings == {Chars(n, 120) : n \in {0, 1, DataBytes + 1, NumDataBlocks * DataBytes}}

(***************************************************************************)
(* The driver as a state machine: one action per public method.  op and    *)
(* ret record the method last called and how it ended; a call that never   *)
(* returns (ret.status = "Diverge") leaves the system hung.                *)
(***************************************************************************)
\* The system after the bootstrap, its scheduler constructed with the
\* algorithm alg.
Boot(alg) ==
    /\ disk = [a \in Addrs |-> Null]
    /\ isFormatted = FALSE
    /\ op = "init"
    /\ ret = [status |-> "ok", out |-> << >>, names |-> << >>]
    /\ nops = 0
    /\ memory = [a \in {} |-> 0]
    /\ registeredProcesses = << >>
    /\ processIdCounter = 0
    /\ memoryAccessor = [lowOrderByte |-> 0, highOrderByte |-> 0]
    /\ cpu = [Cpu EXCEPT !.isExecuting = FALSE, !.currentProcess = 0]
    /\ scheduler = CpuScheduler(alg)

Init == Boot("ROUND ROBIN")

Ready == nops < MaxOps /\ ret.status # "Diverge"

Return(r) ==
    /\ disk' = r.disk
    /\ ret' = [status |-> r.status, out |-> r.out, names |-> r.names]
    /\ nops' = nops + 1
    /\ UNCHANGED osvars

Format ==
    /\ Ready
    /\ op' = "format"
    /\ isFormatted' = TRUE
    /\ Return(Res(format(disk), "ok"))

FormatQuick ==
    /\ Ready
    /\ op' = "formatQuick"
    /\ isFormatted' = TRUE
    /\ Return(Res(formatQuick(disk, isFormatted), "ok"))

Create(N) ==
    \E f \in N :
        /\ Ready
        /\ op' = "create"
        /\ Return(create(disk, isFormatted, f))
        /\ UNCHANGED isFormatted

Read(N) ==
    \E f \in N :
        /\ Ready
        /\ op' = "read"
        /\ Return(read(disk, isFormatted, f))
        /\ UNCHANGED isFormatted

Write(N) ==
    \E f \in N, s \in DataStrings :
        /\ Ready
        /\ op' = "write"
        /\ Return(write(disk, isFormatted, f, s))
        /\ UNCHANGED isFormatted

Delete(N) ==
    \E f \in N :
        /\ Ready
        /\ op' = "delete"
        /\ Return(delete(disk, isFormatted, f))
        /\ UNCHANGED isFormatted

Copy(N) ==
    \E f \in N, g \in N :
        /\ Ready
        /\ op' = "copy"
        /\ Return(copy(disk, isFormatted, f, g))
        /\ UNCHANGED isFormatted

Rename(N) ==
    \E f \in N, g \in N :
        /\ Ready
        /\ op' = "rename"
        /\ Return(rename(disk, isFormatted, f, g))
        /\ UNCHANGED isFormatted

Ls ==
    /\ Ready
    /\ op' = "ls"
    /\ Return(ls(disk, isFormatted))
    /\ UNCHANGED isFormatted

\* Calls on the driver with any filename.
Next ==
    \/ Format
    \/ FormatQuick
    \/ Create(DriverFilenames)
    \/ Read(DriverFilenames)
    \/ Write(DriverFilenames)
    \/ Delete(DriverFilenames)
    \/ Copy(DriverFilenames)
    \/ Rename(DriverFilenames)
    \/ Ls

Spec == Init /\ [][Next]_vars

\* Calls as the shell commands make them.
NextShell ==
    \/ Format
    \/ FormatQuick
    \/ Create(ShellFilenames)
    \/ Read(ShellFilenames)
    \/ Write(ShellFilenames)
    \/ Delete(ShellFilenames)
    \/ Copy(ShellFilenames)
    \/ Rename(ShellFilenames)
    \/ Ls

SpecShell == Init /\ [][NextShell]_vars

(***************************************************************************)
(* The operating system as a state machine: the shell commands on          *)
(* processes and the clock pulse, each on the machine of the current       *)
(* state.                                                                  *)
(***************************************************************************)
Sys == Machine(cpu, memory, memoryAccessor, registeredProcesses, scheduler, disk)

Awake == nops < MaxSteps /\ ret.status # "Diverge"

Commit(k, name) ==
    /\ cpu' = k.cpu
    /\ memory' = k.memory
    /\ memoryAccessor' = k.memoryAccessor
    /\ registeredProcesses' = k.registeredProcesses
    /\ scheduler' = k.scheduler
    /\ disk' = k.disk
    /\ op' = name
    /\ ret' = [status |-> k.status, out |-> k.out, names |-> << >>]
    /\ nops' = nops + 1
    /\ UNCHANGED isFormatted

\* load [priority]: shellLoad with a valid program.
Load ==
    \E program \in Programs, priority \in Priorities :
        LET r == allocateMemory(memory, registeredProcesses, processIdCounter,
                                disk, isFormatted, program, priority)
        IN /\ Awake
           /\ memory' = r.memory
           /\ registeredProcesses' = r.registeredProcesses
           /\ processIdCounter' = r.processIdCounter
           /\ disk' = r.disk
           /\ op' = "load"
           /\ ret' = [status |-> r.status, out |-> << >>, names |-> << >>]
           /\ nops' = nops + 1
           /\ UNCHANGED <<isFormatted, cpu, memoryAccessor, scheduler>>

Run ==
    \E processId \in 0..Len(registeredProcesses) :
        /\ Awake
        /\ Commit(shellRun(Sys, processId), "run")
        /\ UNCHANGED processIdCounter

RunAll ==
    /\ Awake
    /\ Commit(shellRunAll(Sys), "runall")
    /\ UNCHANGED processIdCounter

Kill ==
    \E processId \in 0..Len(registeredProcesses) :
        /\ Awake
        /\ Commit(shellKill(Sys, processId), "kill")
        /\ UNCHANGED processIdCounter

KillAll ==
    /\ Awake
    /\ Commit(shellKillAll(Sys), "killall")
    /\ UNCHANGED processIdCounter

ClearMem ==
    /\ Awake
    /\ Commit(shellClearMem(Sys), "clearmem")
    /\ UNCHANGED processIdCounter

\* A clock pulse with a process running or ready.
Tick ==
    /\ Awake
    /\ cpu.isExecuting \/ scheduler.readyQueue # << >>
    /\ Commit(tick(Sys, isFormatted), "tick")
    /\ UNCHANGED processIdCounter

NextOS ==
    \/ Format
    \/ Load
    \/ Run
    \/ RunAll
    \/ Kill
    \/ KillAll
    \/ ClearMem
    \/ Tick

\* The scheduler starts with any of the three algorithms.
InitOS == \E alg \in Schedules : Boot(alg)

SpecOS == InitOS /\ [][NextOS]_vars

(***************************************************************************)
(* The run of loaded programs as a state machine: programs are loaded,     *)
(* runall puts them in the ready queue, and the clock pulses until they    *)
(* have halted.                                                            *)
(***************************************************************************)
\* A program of nine EA (no operation) and 00: ten pulses.
tenPulses == [i \in 1..10 |-> IF i < 10 THEN 234 ELSE 0]

\* 'A2 03 FF 10 00 00', zeros up to 0x0F and the string 'AB' at 0x10.
stringAt10 ==
    [i \in 1..19 |-> CASE i = 1 -> 162 [] i = 2 -> 3 [] i = 3 -> 255
                       [] i = 4 -> 16 [] i = 17 -> 65 [] i = 18 -> 66
                       [] OTHER -> 0]

\* The programs that are run:
\*   A9 05 8D 10 00 AD 10 00 00   store 5 at 0x0010 and load it back
\*   C3 00                        an op code outside the instruction set
\*   D0 80                        branch by -128
\*   D0 FF 00                     branch by -1
\*   D0 02 EA EA 00               branch by 2
\*   A2 00 EC 10 00 D0 80 00      branch with the Z flag set
\*   EE 06 00 EE 07 00 05 FF      increment of 0x05 and of 0xFF
\*   EE 07 01 00                  increment of the byte at 0x0107
\*   A9 07 8D 00 01 00            store 7 at 0x0100
\*   A2 01 A0 2A FF 00            print the integer 42
\*   A2 02 A0 06 FF 00 41 42 00   print the string at the address in Y
\*   A2 03 FF 06 00 00 41 42 00   print the string at 0x0006
\*   A9 64 8D 20 00 6D 20 00 6D 20 00 AA A8 8A 98 AE 20 00 AC 20 00 00
\*                                100 + 100, then 200 + 100 with the carry,
\*                                and the loads of X and Y
\*   AD 00 03 00                  load from 0x0300, behind the last partition
\*   A2 03 FF 10 03 00            print the string at 0x0310, behind the last
\*                                partition
\*   the string at 0x0010, and the program of ten pulses.
CpuPrograms ==
    {<<169, 5, 141, 16, 0, 173, 16, 0, 0>>,
     <<195, 0>>,
     <<208, 128>>,
     <<208, 255, 0>>,
     <<208, 2, 234, 234, 0>>,
     <<162, 0, 236, 16, 0, 208, 128, 0>>,
     <<238, 6, 0, 238, 7, 0, 5, 255>>,
     <<238, 7, 1, 0>>,
     <<169, 7, 141, 0, 1, 0>>,
     <<162, 1, 160, 42, 255, 0>>,
     <<162, 2, 160, 6, 255, 0, 65, 66, 0>>,
     <<162, 3, 255, 6, 0, 0, 65, 66, 0>>,
     <<169, 100, 141, 32, 0, 109, 32, 0, 109, 32, 0, 170, 168, 138, 152,
       174, 32, 0, 172, 32, 0, 0>>,
     <<173, 0, 3, 0>>,
     <<162, 3, 255, 16, 3, 0>>,
     stringAt10,
     tenPulses}

Powered == nops < MaxPulses /\ ret.status # "Diverge"

\* load, before anything runs: shellLoad with a valid program and no
\* priority.
CpuLoad ==
    \E program \in CpuPrograms :
        LET r == allocateMemory(memory, registeredProcesses, processIdCounter,
                                disk, isFormatted, program, defaultPriority)
        IN /\ Powered
           /\ op \in {"init", "load"}
           /\ Len(registeredProcesses) < MaxProcesses
           /\ memory' = r.memory
           /\ registeredProcesses' = r.registeredProcesses
           /\ processIdCounter' = r.processIdCounter
           /\ disk' = r.disk
           /\ op' = "load"
           /\ ret' = [status |-> r.status, out |-> << >>, names |-> << >>]
           /\ nops' = nops + 1
           /\ UNCHANGED <<isFormatted, cpu, memoryAccessor, scheduler>>

\* runall, with a process to enqueue.
CpuRunAll ==
    /\ Powered
    /\ \E i \in 1..Len(registeredProcesses) : registeredProcesses[i].state = "RESIDENT"
    /\ Commit(shellRunAll(Sys), "runall")
    /\ UNCHANGED processIdCounter

\* A clock pulse with a process running or ready.
CpuTick ==
    /\ Powered
    /\ cpu.isExecuting \/ scheduler.readyQueue # << >>
    /\ Commit(tick(Sys, isFormatted), "tick")
    /\ UNCHANGED processIdCounter

NextCPU ==
    \/ CpuLoad
    \/ CpuRunAll
    \/ CpuTick

SpecCPU == InitOS /\ [][NextCPU]_vars

(***************************************************************************)
(* The swapping of processes as a state machine: the disk is formatted,    *)
(* one program more than there are partitions is loaded, processes are run *)
(* and the clock pulses.                                                   *)
(***************************************************************************)
Swapping == nops < partitionCount + MaxSteps /\ ret.status # "Diverge"

\* load of D0 FE (a loop) or EA 00, with no priority; one process more than
\* there are partitions.
SwapLoad ==
    \E program \in {<<208, 254>>, <<234, 0>>} :
        LET r == allocateMemory(memory, registeredProcesses, processIdCounter,
                                disk, isFormatted, program, defaultPriority)
        IN /\ Swapping
           /\ Len(registeredProcesses) <= partitionCount
           /\ memory' = r.memory
           /\ registeredProcesses' = r.registeredProcesses
           /\ processIdCounter' = r.processIdCounter
           /\ disk' = r.disk
           /\ op' = "load"
           /\ ret' = [status |-> r.status, out |-> << >>, names |-> << >>]
           /\ nops' = nops + 1
           /\ UNCHANGED <<isFormatted, cpu, memoryAccessor, scheduler>>

\* run of a RESIDENT process.
SwapRun ==
    \E processId \in 0..(Len(registeredProcesses) - 1) :
        /\ Swapping
        /\ registeredProcesses[processId + 1].state = "RESIDENT"
        /\ Commit(shellRun(Sys, processId), "run")
        /\ UNCHANGED processIdCounter

SwapTick ==
    /\ Swapping
    /\ cpu.isExecuting \/ scheduler.readyQueue # << >>
    /\ Commit(tick(Sys, isFormatted), "tick")
    /\ UNCHANGED processIdCounter

NextSwap ==
    \/ Format
    \/ SwapLoad
    \/ SwapRun
    \/ SwapTick

SpecSwap == InitOS /\ [][NextSwap]_vars

(***************************************************************************)
(* The command line of the shell: Shell.parseInput, and the commands on    *)
(* the configuration of the scheduler.  Strings are sequences of character *)
(* codes.                                                                  *)
(***************************************************************************)
\* Utils.trim(str): the string without the spaces in front of it and behind
\* it.
RECURSIVE trim(_)
trim(str) ==
    IF str = << >> THEN str
    ELSE IF Head(str) = 32 THEN trim(Tail(str))
    ELSE IF str[Len(str)] = 32 THEN trim(SubSeq(str, 1, Len(str) - 1))
    ELSE str

\* String.split(" "): the pieces between the spaces, the empty ones too.
RECURSIVE split(_)
split(str) ==
    IF \A i \in 1..Len(str) : str[i] # 32 THEN <<str>>
    ELSE LET i == CHOOSE j \in 1..Len(str) :
                      str[j] = 32 /\ \A j2 \in 1..(j - 1) : str[j2] # 32
         IN <<SubSeq(str, 1, i - 1)>> \o split(SubSeq(str, i + 1, Len(str)))

toLowerCase(str) ==
    [i \in 1..Len(str) |-> IF str[i] \in 65..90 THEN str[i] + 32 ELSE str[i]]

toUpperCase(str) ==
    [i \in 1..Len(str) |-> IF str[i] \in 97..122 THEN str[i] - 32 ELSE str[i]]

\* parseInput(buffer): the command, in lower case, and the arguments that
\* are not empty, in lower case unless the command is status or prompt.
parseInput(buffer) ==
    LET tempList == split(trim(buffer))
        cmd == trim(toLowerCase(Head(tempList)))
        rest == Tail(tempList)
        lowered == IF /\ cmd # <<115, 116, 97, 116, 117, 115>>
                      /\ cmd # <<112, 114, 111, 109, 112, 116>>
                   THEN [i \in 1..Len(rest) |-> toLowerCase(rest[i])]
                   ELSE rest
    IN [command |-> cmd,
        args |-> SelectSeq(lowered, LAMBDA arg : trim(arg) # << >>)]

\* NaN, the number that parseInt gives for a string with no digits in front
\* and that is in no order with any number: the model writes it as an
\* integer no input of the model parses to, and compares numbers through
\* LessThan.
NaN == -999999

LessThan(a, b) == a # NaN /\ b # NaN /\ a < b

\* The value of a character as a digit, 36 when it is none.
DigitValue(c) ==
    IF c \in 48..57 THEN c - 48
    ELSE IF c \in 97..122 THEN c - 87
    ELSE IF c \in 65..90 THEN c - 55
    ELSE 36

\* The digits of the radix in front of the string.
RECURSIVE DigitsInFront(_, _)
DigitsInFront(str, radix) ==
    IF str = << >> \/ DigitValue(Head(str)) >= radix THEN << >>
    ELSE <<Head(str)>> \o DigitsInFront(Tail(str), radix)

RECURSIVE DigitsValue(_, _)
DigitsValue(digits, radix) ==
    IF digits = << >> THEN 0
    ELSE (DigitsValue(SubSeq(digits, 1, Len(digits) - 1), radix) * radix)
             + DigitValue(digits[Len(digits)])

\* parseInt(string) with no radix: spaces in front are skipped, a sign is
\* taken, 0x or 0X in front makes the radix 16, and the digits in front of
\* the rest are the number; NaN when there are none.  What stands behind
\* the digits is not read, so the spaces behind may go as well.
parseInt(string) ==
    LET s == trim(string)
        signed == s # << >> /\ Head(s) \in {43, 45}
        body == IF signed THEN Tail(s) ELSE s
        hex == Len(body) >= 2 /\ body[1] = 48 /\ body[2] \in {88, 120}
        radix == IF hex THEN 16 ELSE 10
        digits == DigitsInFront(IF hex THEN SubSeq(body, 3, Len(body)) ELSE body,
                                radix)
    IN IF digits = << >> THEN NaN
       ELSE IF signed /\ Head(s) = 45 THEN 0 - DigitsValue(digits, radix)
       ELSE DigitsValue(digits, radix)

\* ' is not recognized as a positive integer. Please try again.'
notPositiveText ==
    <<32, 105, 115, 32, 110, 111, 116, 32, 114, 101, 99, 111, 103, 110, 105,
      122, 101, 100, 32, 97, 115, 32, 97, 32, 112, 111, 115, 105, 116, 105,
      118, 101, 32, 105, 110, 116, 101, 103, 101, 114, 46, 32, 80, 108, 101,
      97, 115, 101, 32, 116, 114, 121, 32, 97, 103, 97, 105, 110, 46>>

\* 'undefined', the text of an argument that was not given.
undefinedText == <<117, 110, 100, 101, 102, 105, 110, 101, 100>>

\* shellQuantum(args): parseInt of args[0] (NaN when there is no argument);
\* a target below 1 is reported, any other becomes the quantum.
shellQuantum(k, args) ==
    LET target == IF args = << >> THEN NaN ELSE parseInt(args[1])
    IN IF LessThan(target, 1)
       THEN putText(k, (IF args = << >> THEN undefinedText ELSE args[1])
                           \o notPositiveText)
       ELSE [k EXCEPT !.scheduler.quantum = target]

\* The names of the algorithms as the shell reads and prints them.
ScheduleName(alg) ==
    CASE alg = "ROUND ROBIN" -> <<82, 79, 85, 78, 68, 32, 82, 79, 66, 73, 78>>
      [] alg = "FCFS" -> <<70, 67, 70, 83>>
      [] alg = "PRIORITY" -> <<80, 82, 73, 79, 82, 73, 84, 89>>

\* getSchedule() and setSchedule(schedule) of the scheduler.
getSchedule(k) == ScheduleName(k.scheduler.schedule)

setSchedule(k, schedule) ==
    [k EXCEPT !.scheduler.schedule =
                  CHOOSE alg \in Schedules : ScheduleName(alg) = schedule]

shellGetSchedule(k, args) == putText(k, getSchedule(k))

\* 'Schedule set: ', 'ERR: ' and
\* ' not recognized as a compatible scheduling algorithm.'
scheduleSetText == <<83, 99, 104, 101, 100, 117, 108, 101, 32, 115, 101, 116, 58, 32>>

notCompatibleText ==
    <<32, 110, 111, 116, 32, 114, 101, 99, 111, 103, 110, 105, 122, 101, 100,
      32, 97, 115, 32, 97, 32, 99, 111, 109, 112, 97, 116, 105, 98, 108, 101,
      32, 115, 99, 104, 101, 100, 117, 108, 105, 110, 103, 32, 97, 108, 103,
      111, 114, 105, 116, 104, 109, 46>>

\* shellSetSchedule(args): the first argument in upper case is looked up
\* among the three names; nothing is done without an argument.
shellSetSchedule(k, args) ==
    IF Len(args) > 0
    THEN IF \E alg \in Schedules : ScheduleName(alg) = toUpperCase(args[1])
         THEN putText(setSchedule(k, toUpperCase(args[1])),
                      scheduleSetText \o toUpperCase(args[1]))
         ELSE putText(k, <<69, 82, 82, 58, 32>> \o args[1] \o notCompatibleText)
    ELSE k

\* handleInput(buffer) for the commands quantum, getschedule and
\* setschedule: the command of the parsed line is looked up and called with
\* the arguments of the line.
handleInput(k, buffer) ==
    LET userCommand == parseInput(buffer)
    IN CASE userCommand.command = <<113, 117, 97, 110, 116, 117, 109>> ->
                shellQuantum(k, userCommand.args)
         [] userCommand.command =
                <<103, 101, 116, 115, 99, 104, 101, 100, 117, 108, 101>> ->
                shellGetSchedule(k, userCommand.args)
         [] userCommand.command =
                <<115, 101, 116, 115, 99, 104, 101, 100, 117, 108, 101>> ->
                shellSetSchedule(k, userCommand.args)
         [] OTHER -> k

(***************************************************************************)
(* The configuration of the scheduler as a state machine: lines with the   *)
(* commands quantum, setschedule and getschedule are typed at the shell.   *)
(***************************************************************************)
\* quantum 3, quantum 1, quantum 0, quantum -2, quantum x, quantum
QuantumLines ==
    {<<113, 117, 97, 110, 116, 117, 109, 32, 51>>,
     <<113, 117, 97, 110, 116, 117, 109, 32, 49>>,
     <<113, 117, 97, 110, 116, 117, 109, 32, 48>>,
     <<113, 117, 97, 110, 116, 117, 109, 32, 45, 50>>,
     <<113, 117, 97, 110, 116, 117, 109, 32, 120>>,
     <<113, 117, 97, 110, 116, 117, 109>>}

\* 'setschedule ' and 'getschedule'
setscheduleText == <<115, 101, 116, 115, 99, 104, 101, 100, 117, 108, 101, 32>>

getscheduleText == <<103, 101, 116, 115, 99, 104, 101, 100, 117, 108, 101>>

\* setschedule with the name of each algorithm in upper and in lower case,
\* with rr, and with no argument.
ScheduleLines ==
    {setscheduleText \o ScheduleName(alg) : alg \in Schedules}
    \cup {setscheduleText \o toLowerCase(ScheduleName(alg)) : alg \in Schedules}
    \cup {setscheduleText \o <<114, 114>>, setscheduleText}

Quantum ==
    \E buffer \in QuantumLines :
        /\ Awake
        /\ Commit(handleInput(Sys, buffer), "quantum")
        /\ UNCHANGED processIdCounter

SetSchedule ==
    \E buffer \in ScheduleLines :
        /\ Awake
        /\ Commit(handleInput(Sys, buffer), "setschedule")
        /\ UNCHANGED processIdCounter

GetSchedule ==
    /\ Awake
    /\ Commit(handleInput(Sys, getscheduleText), "getschedule")
    /\ UNCHANGED processIdCounter

NextSchedule ==
    \/ Quantum
    \/ SetSchedule
    \/ GetSchedule

SpecSchedule == InitOS /\ [][NextSchedule]_vars

(***************************************************************************)
(* The context switch as a state machine: a process runs on the CPU with   *)
(* registers a program has left there; the registers are saved in its      *)
(* process control block (updatePCB), reset (init) and loaded from the     *)
(* block (initWithPCB).                                                    *)
(***************************************************************************)
\* The system with the program EA 00 loaded, run and dispatched.
Dispatched ==
    LET r == allocateMemory([a \in {} |-> 0], << >>, 0, [a \in Addrs |-> Null],
                            FALSE, <<234, 0>>, defaultPriority)
        k == Machine([Cpu EXCEPT !.currentProcess = 0], r.memory,
                     [lowOrderByte |-> 0, highOrderByte |-> 0],
                     r.registeredProcesses, CpuScheduler("ROUND ROBIN"), r.disk)
    IN tickStart(shellRun(k, 0), FALSE)

\* Every byte is in the accumulator, in the instruction register, in X and
\* in Y, and every program counter of a partition in the program counter,
\* in one of the initial states.
InitSwitch ==
    \E v \in 0..(limitRegister - 1) :
        /\ disk = Dispatched.disk
        /\ isFormatted = FALSE
        /\ op = "init"
        /\ ret = [status |-> "ok", out |-> << >>, names |-> << >>]
        /\ nops = 0
        /\ memory = Dispatched.memory
        /\ registeredProcesses = Dispatched.registeredProcesses
        /\ processIdCounter = 1
        /\ memoryAccessor = Dispatched.memoryAccessor
        /\ scheduler = Dispatched.scheduler
        /\ cpu = [Dispatched.cpu EXCEPT !.accumulator = v % 256,
                                        !.instructionRegister = 255 - (v % 256),
                                        !.xRegister = (v + 1) % 256,
                                        !.yRegister = (v + 16) % 256,
                                        !.zFlag = v % 2,
                                        !.programCounter = v]

\* updatePCB(): the registers are saved in the block of the current process.
Save ==
    /\ Awake
    /\ Commit(updatePCB(Sys), "updatePCB")
    /\ UNCHANGED processIdCounter

\* init(): the registers are reset.
Reset ==
    /\ Awake
    /\ Commit([Sys EXCEPT !.cpu = init(cpu)], "init")
    /\ UNCHANGED processIdCounter

\* initWithPCB(currentProcess): the registers are loaded from the block.
Restore ==
    /\ Awake
    /\ Commit([Sys EXCEPT !.cpu = [initWithPCB(cpu, registeredProcesses,
                                               cpu.currentProcess)
                                      EXCEPT !.isExecuting = TRUE]],
              "initWithPCB")
    /\ UNCHANGED processIdCounter

NextSwitch ==
    \/ Save
    \/ Reset
    \/ Restore

SpecSwitch == InitSwitch /\ [][NextSwitch]_vars

TypeOK ==
    /\ isFormatted \in BOOLEAN
    /\ nops \in 0..(IF MaxPulses > MaxOps THEN MaxPulses ELSE MaxOps)
          \cup 0..(partitionCount + MaxSteps)
    /\ \A a \in Addrs : disk[a].active \in {-1, 0, 1}

(***************************************************************************)
(* Vocabulary of the properties                                            *)
(***************************************************************************)
Range(q) == {q[i] : i \in 1..Len(q)}

FileOps == {"create", "read", "write", "delete", "copy", "rename", "ls"}

\* The zero-padded encoding of a filename, as a directory entry stores it.
EncodedName(f) == PadTo(convertStringToAscii(f), diskDataLength)

\* Some active directory entry holds the name.
NameHeld(d, f) == \E e \in DirAddrs : d[e].active = 1 /\ d[e].data = EncodedName(f)

\* f names a file: the lookup finds an active directory entry other than
\* the master boot record.
FileEntry(d, f) ==
    LET e == LookupStop(d, f)
    IN e # << >> /\ e # MBR /\ d[e].data # Undefined

DataFull(d) == \A a \in DataAddrs : d[a].active = 1
DirFull(d) == \A a \in DirAddrs : d[a].active = 1

\* Following headers from block a reaches a block whose header is 999 within
\* fuel steps, through blocks of tracks 1.. only and none with header 000.
RECURSIVE ChainTerminates(_, _, _)
ChainTerminates(d, a, fuel) ==
    /\ fuel > 0
    /\ a \in DataAddrs
    /\ d[a].header # h000
    /\ \/ d[a].header = h999
       \/ ChainTerminates(d, HeaderAddress(d[a].header), fuel - 1)

\* The blocks met following headers from block a, up to a block that links
\* to no other (header 999, the terminator, or 000, unlinked).
RECURSIVE ChainSeq(_, _, _)
ChainSeq(d, a, fuel) ==
    IF fuel = 0 \/ a \notin Addrs THEN << >>
    ELSE IF d[a].header = h999 \/ d[a].header = h000 THEN <<a>>
    ELSE <<a>> \o ChainSeq(d, HeaderAddress(d[a].header), fuel - 1)

FileChain(d, f) ==
    LET fa == getFileAddressByFilename(d, f)
    IN IF fa.status = "ok" THEN ChainSeq(d, fa.address, NumRecords) ELSE << >>

\* out is s followed by padding characters only.
SamePadded(out, s) ==
    /\ startsWith(out, s)
    /\ \A i \in (Len(s) + 1)..Len(out) : out[i] \in {0, 48}

(***************************************************************************)
(* C1: on a formatted disk the chain of every active directory entry other *)
(* than the master boot record reaches a block with header 999 within      *)
(* T*S*B steps, without passing a block with header 000 or entering track  *)
(* 0, so that read ends for every existing file.                           *)
(***************************************************************************)
C1_ChainsReachTerminator ==
    isFormatted =>
        /\ \A e \in DirAddrs \ {MBR} :
              disk[e].active = 1 =>
                  ChainTerminates(disk, HeaderAddress(disk[e].header), NumRecords)
        /\ \A f \in Filenames :
              FileEntry(disk, f) => read(disk, isFormatted, f).status # "Diverge"

(***************************************************************************)
(* C2: for an existing file f and any string s for which write finds the   *)
(* blocks it needs (the empty string included), write(f, s) then read(f)   *)
(* returns s followed by padding only.                                     *)
(***************************************************************************)
C2_WriteReadRoundTrip ==
    \A f \in Filenames, s \in DataStrings :
        LET w == write(disk, isFormatted, f, s)
            r == read(w.disk, isFormatted, f)
        IN (isFormatted /\ FileEntry(disk, f) /\ w.status = "ok")
              => (r.status = "ok" /\ SamePadded(r.out, s))

(***************************************************************************)
(* C3: no two active directory entries hold the same filename; create of a *)
(* held name and rename to a name held by another entry fail with          *)
(* NameInUse and change no record.                                         *)
(***************************************************************************)
C3_UniqueFilenames ==
    isFormatted =>
        /\ \A e1, e2 \in DirAddrs \ {MBR} :
              (e1 # e2 /\ disk[e1].active = 1 /\ disk[e2].active = 1)
                  => disk[e1].data # disk[e2].data
        /\ \A f \in Filenames :
              NameHeld(disk, f) => create(disk, isFormatted, f) = Res(disk, "NameInUse")
        /\ \A f, g \in Filenames :
              (/\ FileEntry(disk, f)
               /\ \E e \in DirAddrs \ {MBR, LookupStop(disk, f)} :
                     disk[e].active = 1 /\ disk[e].data = EncodedName(g))
                  => rename(disk, isFormatted, f, g) = Res(disk, "NameInUse")

(***************************************************************************)
(* C4: once the disk is formatted, record 0:0:0 is active=1, header=000,   *)
(* data all zeros in every state: no call, with any filename, changes it.  *)
(***************************************************************************)
C4_MasterBootRecord == isFormatted => disk[MBR] = masterBootRecordString

(***************************************************************************)
(* C5: while the driver is unformatted, every call of create, read, write, *)
(* delete, copy, rename and ls ends with the NotFormatted error and leaves *)
(* the store and the formatted flag as they were.                          *)
(***************************************************************************)
C5_UnformattedCallsFail ==
    [][(~isFormatted /\ op' \in FileOps)
          => (/\ ret'.status = "NotFormatted"
              /\ disk' = disk
              /\ isFormatted' = isFormatted)]_vars

\* A write was called on the unformatted driver and was refused.
C5_Witness == ~isFormatted /\ op = "write" /\ ret.status = "NotFormatted"

(***************************************************************************)
(* C6: create of a free name when every block of tracks 1.. is active      *)
(* fails with NoSpace and leaves the disk unchanged.                       *)
(***************************************************************************)
C6_CreateNoDataBlock ==
    \A f \in Filenames :
        (isFormatted /\ DataFull(disk) /\ ~NameHeld(disk, f))
            => create(disk, isFormatted, f) = Res(disk, "NoSpace")

(***************************************************************************)
(* C7: create of a free name when every directory entry is active fails    *)
(* with NoSpace and leaves the disk unchanged.                             *)
(***************************************************************************)
C7_CreateNoDirectoryEntry ==
    \A f \in Filenames :
        (isFormatted /\ DirFull(disk) /\ ~NameHeld(disk, f))
            => create(disk, isFormatted, f) = Res(disk, "NoSpace")

(***************************************************************************)
(* C8: a successful create(f), f of 1 to D characters, writes active=1,    *)
(* header=H, data=padded f into the first inactive directory entry, H the  *)
(* first inactive block of tracks 1.., sets H to active=1, header=999 with *)
(* its data untouched, changes nothing else, and afterwards read, write,   *)
(* rename and delete of f do not fail with NotFound.                       *)
(***************************************************************************)
C8_CreateEffect ==
    \A f \in Filenames :
        LET r == create(disk, isFormatted, f)
            e == FirstTSB({a \in DirAddrs : disk[a].active = 0})
            H == FirstTSB({a \in DataAddrs : disk[a].active = 0})
        IN (Len(f) >= 1 /\ Len(f) <= DataBytes /\ r.status = "ok") =>
              /\ e # << >>
              /\ H # << >>
              /\ r.disk[e] = [active |-> 1, header |-> H, data |-> EncodedName(f)]
              /\ r.disk[H] = [disk[H] EXCEPT !.active = 1, !.header = h999]
              /\ \A a \in Addrs \ {e, H} : r.disk[a] = disk[a]
              /\ read(r.disk, isFormatted, f).status # "NotFound"
              /\ \A s \in DataStrings : write(r.disk, isFormatted, f, s).status # "NotFound"
              /\ \A g \in Filenames : rename(r.disk, isFormatted, f, g).status # "NotFound"
              /\ delete(r.disk, isFormatted, f).status # "NotFound"

(***************************************************************************)
(* C9: after a successful write of k >= 1 chunks to f, the chain of f is   *)
(* exactly k active blocks, the last with header 999, and every block of   *)
(* the chain f had before that is not on the new chain is inactive.        *)
(***************************************************************************)
C9_WriteChain ==
    \A f \in Filenames, s \in DataStrings :
        LET k == BlocksToWrite(convertStringToAscii(s))
            w == write(disk, isFormatted, f, s)
            before == FileChain(disk, f)
            after == FileChain(w.disk, f)
        IN (isFormatted /\ FileEntry(disk, f) /\ k >= 1 /\ w.status = "ok") =>
              /\ Len(after) = k
              /\ \A i \in 1..Len(after) : w.disk[after[i]].active = 1
              /\ w.disk[after[Len(after)]].header = h999
              /\ \A b \in Range(before) \ Range(after) : w.disk[b].active = 0

(***************************************************************************)
(* C10: a successful delete(f) clears the active flag of the directory     *)
(* entry of f and of every block of its chain, changes no header, no data  *)
(* and no other record; afterwards read(f) fails with NotFound and ls does *)
(* not list f.                                                             *)
(***************************************************************************)
C10_DeleteEffect ==
    \A f \in Filenames :
        LET r == delete(disk, isFormatted, f)
            e == LookupStop(disk, f)
            chain == Range(FileChain(disk, f))
        IN (isFormatted /\ FileEntry(disk, f) /\ r.status = "ok") =>
              /\ r.disk[e].active = 0
              /\ \A b \in chain : r.disk[b].active = 0
              /\ \A a \in Addrs : /\ r.disk[a].header = disk[a].header
                                  /\ r.disk[a].data = disk[a].data
              /\ \A a \in Addrs \ (chain \cup {e}) : r.disk[a] = disk[a]
              /\ read(r.disk, isFormatted, f).status = "NotFound"
              /\ f \notin Range(ls(r.disk, isFormatted).names)

\* The store the specification gives for a format: the master boot record at
\* 0:0:0 and the zero-record everywhere else.
FormattedStore ==
    [a \in Addrs |-> IF a = MBR
                     THEN [active |-> 1, header |-> h000, data |-> zeroData]
                     ELSE [active |-> 0, header |-> h000, data |-> zeroData]]

(***************************************************************************)
(* C11: a format, from any state of the store, leaves the master boot      *)
(* record at 0:0:0 and the zero-record at every other address and the      *)
(* driver formatted; a second format then leaves the store identical.      *)
(***************************************************************************)
C11_FormatResets ==
    [][op' = "format"
          => (/\ disk' = FormattedStore
              /\ isFormatted'
              /\ format(disk') = disk')]_vars

\* A format was called after two other calls had changed the store.
C11_Witness == op = "format" /\ nops >= 3 /\ disk = FormattedStore

(***************************************************************************)
(* C12: formatQuick, on a formatted or an unformatted driver, leaves every *)
(* record with active flag 0 (1 at 0:0:0), header 000 and a data field of  *)
(* D bytes, the bytes the record held before when it held any.             *)
(***************************************************************************)
C12_FormatQuickEffect ==
    LET q == formatQuick(disk, isFormatted)
    IN \A a \in Addrs :
          /\ q[a].active = (IF a = MBR THEN 1 ELSE 0)
          /\ q[a].header = h000
          /\ Len(q[a].data) = diskDataLength
          /\ (disk[a] # Null /\ disk[a].data # Undefined) => q[a].data = disk[a].data

(***************************************************************************)
(* C13: a successful rename(f, g) of a file f to a name g of 1 to D        *)
(* characters that no other entry holds changes the data field of f's      *)
(* directory entry and nothing else, and read(g) then returns what read(f) *)
(* returned before; rename(f, f) leaves the store identical.               *)
(***************************************************************************)
C13_RenameFrame ==
    \A f \in Filenames, g \in Filenames :
        LET r == rename(disk, isFormatted, f, g)
            e == LookupStop(disk, f)
            before == read(disk, isFormatted, f)
            after == read(r.disk, isFormatted, g)
        IN (/\ isFormatted
            /\ FileEntry(disk, f)
            /\ Len(g) >= 1 /\ Len(g) <= DataBytes
            /\ (g = f \/ ~NameHeld(disk, g))
            /\ r.status = "ok") =>
              /\ r.disk[e].active = disk[e].active
              /\ r.disk[e].header = disk[e].header
              /\ \A a \in Addrs \ {e} : r.disk[a] = disk[a]
              /\ before.status = "ok" => (after.status = "ok" /\ after.out = before.out)
              /\ g = f => r.disk = disk

(***************************************************************************)
(* Vocabulary of the properties on processes                               *)
(***************************************************************************)
\* The bytes of the partition at base: the bytes other than 0x00 at their
\* addresses.
PartitionBytes(m, base) == [a \in Used(m, base, limitRegister) |-> m[a]]

\* Every byte of the partition at base reads 0x00.
AllZero(m, base) ==
    /\ Used(m, base, limitRegister) = {}
    /\ readImmediate(m, base) = 0
    /\ readImmediate(m, (base + limitRegister) - 1) = 0

\* Programs that fit a partition.
FittingPrograms == {p \in Programs : Len(p) <= limitRegister}

\* The process control blocks of the RAM-located processes that are not
\* terminated.
LiveRAM(rp) ==
    {i \in 1..Len(rp) : rp[i].location = "RAM" /\ rp[i].state # "TERMINATED"}

(***************************************************************************)
(* C14: when allocateMemory puts a program into a partition and            *)
(* deallocateMemory is then called on the new process control block, every *)
(* byte of the partition reads 0x00, hasAvailableMemoryPartition() is      *)
(* true, the process control block is TERMINATED, and every other          *)
(* partition holds the bytes it held before the two calls.                 *)
(***************************************************************************)
C14_AllocateDeallocate ==
    \A program \in FittingPrograms, priority \in Priorities :
        LET r == allocateMemory(memory, registeredProcesses, processIdCounter,
                                disk, isFormatted, program, priority)
            i == Len(r.registeredProcesses)
            pcb == r.registeredProcesses[i]
            d == deallocateMemory(r.memory, r.registeredProcesses, i)
        IN (/\ r.status = "ok"
            /\ Len(r.registeredProcesses) = Len(registeredProcesses) + 1
            /\ pcb.location = "RAM")
           => /\ AllZero(d.memory, pcb.startingAddress)
              /\ hasAvailableMemoryPartition(d.memory)
              /\ d.registeredProcesses[i].state = "TERMINATED"
              /\ \A n \in 1..Len(Partitions) :
                     Partitions[n] # pcb.startingAddress
                     => PartitionBytes(d.memory, Partitions[n])
                            = PartitionBytes(memory, Partitions[n])

\* A process was loaded into a partition and killed: it is TERMINATED and
\* its partition reads 0x00, while another process still has its program in
\* another partition.
C14_Witness ==
    /\ op = "kill"
    /\ \E i, j \in 1..Len(registeredProcesses) :
           /\ registeredProcesses[i].location = "RAM"
           /\ registeredProcesses[i].state = "TERMINATED"
           /\ Used(memory, registeredProcesses[i].startingAddress, limitRegister) = {}
           /\ registeredProcesses[j].location = "RAM"
           /\ registeredProcesses[j].state # "TERMINATED"
           /\ registeredProcesses[j].startingAddress
                  # registeredProcesses[i].startingAddress
           /\ Used(memory, registeredProcesses[j].startingAddress, limitRegister) # {}
           /\ hasAvailableMemoryPartition(memory)

(***************************************************************************)
(* C15: allocateMemory of a program longer than limitRegister ends with    *)
(* ProgramTooLarge, whether a partition is free or not: no process control *)
(* block is registered, the process id counter keeps its value, and the    *)
(* memory and the disk are as before.                                      *)
(***************************************************************************)
C15_ProgramTooLarge ==
    \A program \in Programs \ FittingPrograms, priority \in Priorities :
        LET r == allocateMemory(memory, registeredProcesses, processIdCounter,
                                disk, isFormatted, program, priority)
        IN /\ r.status = "ProgramTooLarge"
           /\ r.registeredProcesses = registeredProcesses
           /\ r.processIdCounter = processIdCounter
           /\ r.memory = memory
           /\ r.disk = disk

(***************************************************************************)
(* C16: no two RAM-located process control blocks that are not TERMINATED  *)
(* have the same startingAddress: allocateMemory never puts a program into *)
(* the partition of a live process, also when the base byte of that        *)
(* partition reads 0x00.                                                   *)
(***************************************************************************)
C16_DistinctPartitions ==
    \A i, j \in LiveRAM(registeredProcesses) :
        i # j => registeredProcesses[i].startingAddress
                     # registeredProcesses[j].startingAddress

\* Every partition is the partition of a RAM-located process that is not
\* TERMINATED.
EveryPartitionOccupied(rp) ==
    \A n \in 1..Len(Partitions) :
        \E i \in LiveRAM(rp) : rp[i].startingAddress = Partitions[n]

\* The swap file of the process holds the bytes of a program as
\* two-character hexadecimal tokens with spaces between them.
SwapFileHolds(d, processID, program) ==
    LET r == read(d, TRUE, SwapFilename(processID))
    IN /\ FileEntry(d, SwapFilename(processID))
       /\ r.status = "ok"
       /\ SamePadded(r.out, JoinHex(program))

(***************************************************************************)
(* C17: on a formatted disk, one load more than there are partitions gives *)
(* RAM process control blocks at distinct partition bases for the first    *)
(* loads and a DSK process control block with startingAddress -1 for the   *)
(* last, whose swap file holds the program as hexadecimal tokens; and in   *)
(* every state where every partition is occupied, a successful             *)
(* allocateMemory registers a DSK process control block with               *)
(* startingAddress -1, leaves the program in the swap file of the new      *)
(* process and changes no byte of the memory.                              *)
(***************************************************************************)
C17_LoadToDisk ==
    /\ (/\ isFormatted
        /\ op = "load"
        /\ ret.status = "ok"
        /\ Len(registeredProcesses) = partitionCount + 1
        /\ processIdCounter = partitionCount + 1
        /\ \A i \in 1..Len(registeredProcesses) :
               registeredProcesses[i].state = "RESIDENT")
       => /\ \A i \in 1..partitionCount :
                 /\ registeredProcesses[i].location = "RAM"
                 /\ registeredProcesses[i].startingAddress = Partitions[i]
          /\ registeredProcesses[partitionCount + 1].location = "DSK"
          /\ registeredProcesses[partitionCount + 1].startingAddress = -1
          /\ \E program \in Programs :
                 SwapFileHolds(disk, partitionCount, program)
    /\ (isFormatted /\ EveryPartitionOccupied(registeredProcesses))
       => \A program \in FittingPrograms, priority \in Priorities :
              LET r == allocateMemory(memory, registeredProcesses, processIdCounter,
                                      disk, isFormatted, program, priority)
                  pcb == r.registeredProcesses[Len(r.registeredProcesses)]
              IN r.status = "ok"
                 => /\ Len(r.registeredProcesses) = Len(registeredProcesses) + 1
                    /\ pcb.location = "DSK"
                    /\ pcb.startingAddress = -1
                    /\ pcb.processId = processIdCounter
                    /\ SwapFileHolds(r.disk, pcb.processId, program)
                    /\ r.memory = memory

(***************************************************************************)
(* C18: deallocateMemory of a DSK process control block that is not        *)
(* TERMINATED sets it TERMINATED, leaves no swap file of the process on    *)
(* the disk and changes no byte of the memory; deallocateMemory of a       *)
(* TERMINATED process control block changes no byte of the memory (the     *)
(* disk is never written by the call).                                     *)
(***************************************************************************)
C18_DeallocateFrame ==
    \A i \in 1..Len(registeredProcesses) :
        LET pcb == registeredProcesses[i]
            d == deallocateMemory(memory, registeredProcesses, i)
        IN /\ (pcb.location = "DSK" /\ pcb.state # "TERMINATED")
              => /\ d.registeredProcesses[i].state = "TERMINATED"
                 /\ ~FileEntry(disk, SwapFilename(pcb.processId))
                 /\ d.memory = memory
           /\ pcb.state = "TERMINATED" => d.memory = memory

(***************************************************************************)
(* C19: a process control block that is TERMINATED stays TERMINATED and is *)
(* outside the ready queue after every step: run, runall, kill, killall,   *)
(* clearmem, load and the clock pulse with its update of the process       *)
(* control block.                                                          *)
(***************************************************************************)
C19_TerminatedIsFinal ==
    [][\A i \in 1..Len(registeredProcesses) :
           registeredProcesses[i].state = "TERMINATED"
           => /\ registeredProcesses'[i].state = "TERMINATED"
              /\ i \notin Range(scheduler'.readyQueue)]_vars

(***************************************************************************)
(* C20: at every pulse boundary, after any sequence of load, run, runall,  *)
(* kill, killall, clearmem and clock pulses and under each of the three    *)
(* scheduling algorithms, at most one process control block is RUNNING.    *)
(***************************************************************************)
C20_AtMostOneRunning ==
    \A i, j \in 1..Len(registeredProcesses) :
        (/\ registeredProcesses[i].state = "RUNNING"
         /\ registeredProcesses[j].state = "RUNNING") => i = j

\* A pulse has dispatched one of two processes of the ready queue: one is
\* RUNNING, the other READY.
C20_Witness ==
    /\ op = "tick"
    /\ cpu.isExecuting
    /\ registeredProcesses[cpu.currentProcess].state = "RUNNING"
    /\ \E j \in 1..Len(registeredProcesses) :
           /\ j # cpu.currentProcess
           /\ registeredProcesses[j].state = "READY"
           /\ j \in Range(scheduler.readyQueue)

(***************************************************************************)
(* Vocabulary of the properties of the run                                 *)
(***************************************************************************)
\* A step of the clock pulse.
PulseStep == op' = "tick" /\ nops' = nops + 1

\* The process a pulse runs: the one that executes or, with the CPU idle,
\* the head of the ready queue; and the queue it leaves behind.
PulsedProcess == IF cpu.isExecuting THEN cpu.currentProcess ELSE Head(scheduler.readyQueue)

QueueBehind == IF cpu.isExecuting THEN scheduler.readyQueue ELSE Tail(scheduler.readyQueue)

\* The pulses the running process has had since its dispatch, the one of
\* this step included.
QuantumUsedInPulse == (IF cpu.isExecuting THEN scheduler.quantumUsed ELSE 0) + 1

\* The program counter a process control block holds.
SavedPC(i) == parseInt16(registeredProcesses[i].programCounter)

\* The partition at base holds the program and zeros behind it.
PartitionHolds(m, base, program) ==
    /\ \A j \in 1..Len(program) : readImmediate(m, (base + j) - 1) = program[j]
    /\ ImageLength(m, base) <= Len(program)

\* Two processes, each with the program of ten pulses in its partition,
\* have been put in the ready queue by runall under ROUND ROBIN.
TwoTenPulsePrograms ==
    /\ scheduler.schedule = "ROUND ROBIN"
    /\ Len(registeredProcesses) = 2
    /\ op \in {"runall", "tick"}
    /\ \A i \in {1, 2} :
           /\ registeredProcesses[i].state # "TERMINATED"
           /\ PartitionHolds(memory, registeredProcesses[i].startingAddress, tenPulses)

C22_QueuedAreReady ==
    \A n \in 1..Len(scheduler.readyQueue) :
        registeredProcesses[scheduler.readyQueue[n]].state = "READY"

\* The base addresses of the partitions.
PartitionBases == {Partitions[n] : n \in 1..Len(Partitions)}

storeAndLoad == <<169, 5, 141, 16, 0, 173, 16, 0, 0>>

\* The first bytes of the partition at base are the bytes of the program.
StartsWith(m, base, program) ==
    \A j \in 1..Len(program) : readImmediate(m, (base + j) - 1) = program[j]

(***************************************************************************)
(* C24: when the program A9 05 8D 10 00 AD 10 00 00, loaded at the base b  *)
(* of any partition, has run to its end (the pulse in which its process    *)
(* becomes TERMINATED), the accumulator is 5 and the byte at the physical  *)
(* address b + 0x10 is 5.                                                  *)
(***************************************************************************)
C24_StoreAndLoad ==
    [][(/\ PulseStep
        /\ StartsWith(memory, registeredProcesses[PulsedProcess].startingAddress,
                      storeAndLoad)
        /\ registeredProcesses[PulsedProcess].state # "TERMINATED"
        /\ registeredProcesses'[PulsedProcess].state = "TERMINATED")
       => /\ \/ cpu'.accumulator = 5
             \/ parseInt16(registeredProcesses'[PulsedProcess].accumulator) = 5
          /\ readImmediate(memory', registeredProcesses[PulsedProcess].startingAddress + 16)
                 = 5]_vars

\* The address and the byte of the next fetch of the process a pulse runs.
PulsedPC ==
    IF cpu.isExecuting THEN cpu.programCounter ELSE SavedPC(PulsedProcess)

FetchAddress == PulsedPC + registeredProcesses[PulsedProcess].startingAddress

FetchedByte == readImmediate(memory, FetchAddress)

\* What a pulse in which the running process halts leaves of the others:
\* the bytes outside the partition of the halted process, the other process
\* control blocks and the ready queue are as they were, but for the
\* dispatch of the next process, which leaves the queue and is RUNNING on
\* the CPU.
OthersUntouched ==
    /\ \A n \in 1..Len(Partitions) :
           Partitions[n] # registeredProcesses[PulsedProcess].startingAddress
           => PartitionBytes(memory', Partitions[n]) = PartitionBytes(memory, Partitions[n])
    /\ Len(registeredProcesses') = Len(registeredProcesses)
    /\ IF QueueBehind = << >>
       THEN /\ scheduler'.readyQueue = << >>
            /\ ~cpu'.isExecuting
            /\ \A j \in 1..Len(registeredProcesses) :
                   j # PulsedProcess => registeredProcesses'[j] = registeredProcesses[j]
       ELSE /\ scheduler'.readyQueue = Tail(QueueBehind)
            /\ cpu'.isExecuting
            /\ cpu'.currentProcess = Head(QueueBehind)
            /\ \A j \in 1..Len(registeredProcesses) :
                   j # PulsedProcess
                   => registeredProcesses'[j] =
                          IF j = Head(QueueBehind)
                          THEN [registeredProcesses[j] EXCEPT !.state = "RUNNING"]
                          ELSE registeredProcesses[j]

\* The eighteen op codes of the instruction set.
OpCodes ==
    {0, 109, 138, 141, 152, 160, 162, 168, 169, 170, 172, 173, 174, 208, 234,
     236, 238, 255}

\* 'ERR: XX is not a valid instruction. Halting program...', XX the byte in
\* two hexadecimal digits.
InvalidMessage(byte) ==
    <<69, 82, 82, 58, 32, HexChar(byte \div 16), HexChar(byte % 16), 32, 105,
      115, 32, 110, 111, 116, 32, 97, 32, 118, 97, 108, 105, 100, 32, 105,
      110, 115, 116, 114, 117, 99, 116, 105, 111, 110, 46, 32, 72, 97, 108,
      116, 105, 110, 103, 32, 112, 114, 111, 103, 114, 97, 109, 46, 46, 46>>

(***************************************************************************)
(* C25: a pulse that fetches a byte that is no op code of the instruction  *)
(* set (C3, say) puts 'ERR: XX is not a valid instruction. Halting         *)
(* program...' on the console, XX the byte in two hexadecimal digits,      *)
(* makes the process TERMINATED and zeroes its partition; the other        *)
(* partitions, the other process control blocks and the ready queue stay   *)
(* as they were and the scheduler dispatches the next process.             *)
(***************************************************************************)
C25_InvalidInstruction ==
    [][(/\ PulseStep
        /\ registeredProcesses[PulsedProcess].state # "TERMINATED"
        /\ FetchedByte \in 0..255
        /\ FetchedByte \notin OpCodes)
       => /\ ret'.status = "ok"
          /\ ret'.out = InvalidMessage(FetchedByte)
          /\ registeredProcesses'[PulsedProcess].state = "TERMINATED"
          /\ AllZero(memory', registeredProcesses[PulsedProcess].startingAddress)
          /\ OthersUntouched]_vars

\* C3 00 has trapped with its message while a second process was in the
\* queue: the one is TERMINATED, the other runs.
C25_Witness ==
    /\ op = "tick"
    /\ ret.out = InvalidMessage(195)
    /\ cpu.isExecuting
    /\ registeredProcesses[cpu.currentProcess].state = "RUNNING"
    /\ \E i \in 1..Len(registeredProcesses) :
           /\ registeredProcesses[i].state = "TERMINATED"
           /\ AllZero(memory, registeredProcesses[i].startingAddress)

\* The Z flag of the process a pulse runs, and its program counter after
\* the pulse: that of the CPU while the process is still on it, else the
\* one its process control block holds.
PulsedZFlag ==
    IF cpu.isExecuting THEN cpu.zFlag
    ELSE parseInt16(registeredProcesses[PulsedProcess].zFlag)

ResultPC ==
    IF cpu'.isExecuting /\ cpu'.currentProcess = PulsedProcess
    THEN cpu'.programCounter
    ELSE parseInt16(registeredProcesses'[PulsedProcess].programCounter)

\* The program counter after D0 with the operand o, fetched at pc.
BranchTarget(pc, o, z) ==
    IF z # 0 THEN pc + 2
    ELSE IF o <= 127 THEN (pc + 2) + o ELSE (pc + 2) - (256 - o)

\* A pulse that executes the op code of the process it runs.
Executes(opcode) ==
    /\ PulseStep
    /\ registeredProcesses[PulsedProcess].state # "TERMINATED"
    /\ FetchedByte = opcode

(***************************************************************************)
(* C26: after D0 with the operand o the program counter is the one behind  *)
(* the operand plus o when the Z flag is 0 and o <= 0x7F, minus (256 - o)  *)
(* when the Z flag is 0 and o >= 0x80 (0xFF: one less), and the one behind *)
(* the operand when the Z flag is 1; and it is a logical address of the    *)
(* partition, in [0, limit).                                               *)
(***************************************************************************)
C26_Branch ==
    [][(/\ Executes(208)
        /\ readImmediate(memory, FetchAddress + 1) \in 0..255)
       => /\ ResultPC = BranchTarget(PulsedPC, readImmediate(memory, FetchAddress + 1),
                                     PulsedZFlag)
          /\ ResultPC \in 0..(limitRegister - 1)]_vars

\* The physical address of the two operand bytes of the instruction a pulse
\* fetches: the low order byte, and the high order byte with the number of
\* the partition's page added.
OperandAddress ==
    readImmediate(memory, FetchAddress + 1)
    + (256 * (readImmediate(memory, FetchAddress + 2)
              + (registeredProcesses[PulsedProcess].startingAddress \div 256)))

\* 'ERR: Bounds violation - attempted to increment accumulator beyond 0xFF.
\* Halting program...'
BoundsMessage ==
    <<69, 82, 82, 58, 32, 66, 111, 117, 110, 100, 115, 32, 118, 105, 111, 108,
      97, 116, 105, 111, 110, 32, 45, 32, 97, 116, 116, 101, 109, 112, 116,
      101, 100, 32, 116, 111, 32, 105, 110, 99, 114, 101, 109, 101, 110, 116,
      32, 97, 99, 99, 117, 109, 117, 108, 97, 116, 111, 114, 32, 98, 101, 121,
      111, 110, 100, 32, 48, 120, 70, 70, 46, 32, 72, 97, 108, 116, 105, 110,
      103, 32, 112, 114, 111, 103, 114, 97, 109, 46, 46, 46>>

(***************************************************************************)
(* C27: EE on a byte v < 0xFF leaves v + 1 in the byte and the process     *)
(* goes on behind the instruction; EE on a byte 0xFF halts the process     *)
(* with the message of the bounds violation and writes nothing: the        *)
(* memory is what it was but for the zeroed partition of the halted        *)
(* process, so that a byte 0xFF outside of it is still 0xFF.               *)
(***************************************************************************)
C27_Increment ==
    [][(/\ Executes(238)
        /\ OperandAddress \in MemoryAddrs)
       => IF readImmediate(memory, OperandAddress) < 255
          THEN /\ readImmediate(memory', OperandAddress)
                      = readImmediate(memory, OperandAddress) + 1
               /\ registeredProcesses'[PulsedProcess].state # "TERMINATED"
               /\ ResultPC = PulsedPC + 3
          ELSE /\ registeredProcesses'[PulsedProcess].state = "TERMINATED"
               /\ ret'.out = BoundsMessage
               /\ memory' = clearProgram(memory,
                                registeredProcesses[PulsedProcess].startingAddress,
                                limitRegister)]_vars

\* EE has trapped on a byte 0xFF of another partition, and the byte is
\* still 0xFF.
C27_Witness ==
    /\ op = "tick"
    /\ ret.out = BoundsMessage
    /\ \E i \in 1..Len(registeredProcesses) :
           /\ registeredProcesses[i].state = "TERMINATED"
           /\ readImmediate(memory, registeredProcesses[i].startingAddress
                                        + limitRegister + 7) = 255

\* The physical addresses of the partition of the process a pulse runs.
OwnAddresses ==
    registeredProcesses[PulsedProcess].startingAddress
    ..(registeredProcesses[PulsedProcess].startingAddress + limitRegister - 1)

\* The op codes that read or write at the address of their two operands.
OperandOpCodes == {109, 141, 172, 173, 174, 236, 238}

(***************************************************************************)
(* C28: a pulse leaves the bytes of every partition other than that of the *)
(* process it runs as they were, and a process whose fetch, or whose       *)
(* operand address in 6D, 8D, AC, AD, AE, EC or EE, is outside its         *)
(* partition [startingAddress, startingAddress + limit) is halted in that  *)
(* pulse.                                                                  *)
(***************************************************************************)
C28_PartitionProtection ==
    [][(/\ PulseStep
        /\ registeredProcesses[PulsedProcess].state # "TERMINATED")
       => /\ \A n \in 1..Len(Partitions) :
                 Partitions[n] \notin OwnAddresses
                 => PartitionBytes(memory', Partitions[n])
                        = PartitionBytes(memory, Partitions[n])
          /\ FetchAddress \notin OwnAddresses
             => registeredProcesses'[PulsedProcess].state = "TERMINATED"
          /\ (FetchedByte \in OperandOpCodes /\ OperandAddress \notin OwnAddresses)
             => registeredProcesses'[PulsedProcess].state = "TERMINATED"]_vars

\* The pulse executes 00, or traps: on a byte that is no op code, or in EE
\* on a byte 0xFF.
HaltsOrTraps ==
    /\ PulseStep
    /\ registeredProcesses[PulsedProcess].state # "TERMINATED"
    /\ \/ FetchedByte = 0
       \/ FetchedByte \in (0..255) \ OpCodes
       \/ FetchedByte = 238 /\ readImmediate(memory, OperandAddress) = 255

(***************************************************************************)
(* C29: in the pulse in which the CPU executes 00 or traps, the process    *)
(* becomes TERMINATED with its partition zeroed and is not in the ready    *)
(* queue; the next process of the queue, if any, is dispatched and         *)
(* RUNNING, and with an empty queue the CPU does not execute.  A           *)
(* TERMINATED process stays TERMINATED, outside the queue and off the CPU: *)
(* none of its instructions is executed any more.                          *)
(***************************************************************************)
C29_HaltInPulse ==
    [][/\ HaltsOrTraps
          => /\ registeredProcesses'[PulsedProcess].state = "TERMINATED"
             /\ AllZero(memory', registeredProcesses[PulsedProcess].startingAddress)
             /\ IF QueueBehind = << >>
                THEN ~cpu'.isExecuting /\ scheduler'.readyQueue = << >>
                ELSE /\ cpu'.isExecuting
                     /\ cpu'.currentProcess = Head(QueueBehind)
                     /\ registeredProcesses'[Head(QueueBehind)].state = "RUNNING"
                     /\ scheduler'.readyQueue = Tail(QueueBehind)
       /\ \A i \in 1..Len(registeredProcesses) :
              registeredProcesses[i].state = "TERMINATED"
              => /\ registeredProcesses'[i].state = "TERMINATED"
                 /\ \A n \in 1..Len(scheduler'.readyQueue) : scheduler'.readyQueue[n] # i
                 /\ ~(cpu'.isExecuting /\ cpu'.currentProcess = i)]_vars

\* A process has halted on 00 (nothing on the console) in a pulse that
\* dispatched the next one: the one is TERMINATED with a zeroed partition,
\* the other, dispatched last, is RUNNING with no pulse yet.
C29_Witness ==
    /\ op = "tick"
    /\ ret.out = << >>
    /\ cpu.isExecuting
    /\ scheduler.quantumUsed = 0
    /\ registeredProcesses[cpu.currentProcess].state = "RUNNING"
    /\ \E i \in 1..Len(registeredProcesses) :
           /\ i # cpu.currentProcess
           /\ registeredProcesses[i].state = "TERMINATED"
           /\ AllZero(memory, registeredProcesses[i].startingAddress)

\* The X and Y registers of the process a pulse runs.
PulsedX ==
    IF cpu.isExecuting THEN cpu.xRegister
    ELSE parseInt16(registeredProcesses[PulsedProcess].xRegister)

PulsedY ==
    IF cpu.isExecuting THEN cpu.yRegister
    ELSE parseInt16(registeredProcesses[PulsedProcess].yRegister)

\* The decimal digits of a number.
RECURSIVE Decimal(_)
Decimal(n) == IF n < 10 THEN <<48 + n>> ELSE Decimal(n \div 10) \o <<48 + (n % 10)>>

(***************************************************************************)
(* C30: FF takes two operand bytes when the X register is 3 and none       *)
(* otherwise: the program counter goes on by 3, respectively by 1.  With   *)
(* X = 1 the decimal digits of the Y register are put on the console; with *)
(* X = 3 and the operands lo, hi, the bytes from the physical address      *)
(* startingAddress + hi * 256 + lo up to the first 0x00, whatever the      *)
(* partition of the process and whatever lo and hi.                        *)
(***************************************************************************)
C30_SystemCall ==
    [][(/\ Executes(255)
        /\ ret'.status = "ok")
       => /\ ResultPC = PulsedPC + (IF PulsedX = 3 THEN 3 ELSE 1)
          /\ PulsedX = 1 => ret'.out = Decimal(PulsedY)
          /\ PulsedX = 3
             => ret'.out = stringAt(memory,
                               registeredProcesses[PulsedProcess].startingAddress
                               + (readImmediate(memory, FetchAddress + 2) * 256)
                               + readImmediate(memory, FetchAddress + 1))]_vars

(***************************************************************************)
(* The configuration of the scheduler                                      *)
(***************************************************************************)
PositiveInteger(n) == n # NaN /\ n \in Nat /\ n >= 1

\* C31: the quantum of the scheduler is a positive integer in every
\* reachable state, whatever lines with the command quantum were typed
\* (arguments below 1, an argument that is no number and no argument among
\* them).
C31_QuantumPositive == PositiveInteger(scheduler.quantum)

\* The text put by the command getschedule typed in machine k.
GetScheduleText(k) ==
    LET g == handleInput(k, getscheduleText)
    IN SubSeq(g.out, Len(k.out) + 1, Len(g.out))

\* C32: for each of the three algorithms, the line setschedule <alg>, with
\* the name in upper or in lower case, sets the algorithm of the scheduler
\* to alg, and getschedule typed after it prints alg; the line
\* setschedule rr leaves the algorithm as it is.
C32_SetSchedule ==
    /\ \A alg \in Schedules :
           \A name \in {ScheduleName(alg), toLowerCase(ScheduleName(alg))} :
               LET k == handleInput(Sys, setscheduleText \o name)
               IN /\ k.scheduler.schedule = alg
                  /\ GetScheduleText(k) = ScheduleName(alg)
    /\ handleInput(Sys, setscheduleText \o <<114, 114>>).scheduler = scheduler

(***************************************************************************)
(* The registers of the CPU                                                *)
(***************************************************************************)
Bytes == 0..255

\* The registers with which the pulsed process enters the pulse: those of
\* the CPU when it executes, those of its process control block when it is
\* dispatched in the pulse (the carry flag is then reset).
PulsedRegisters ==
    IF cpu.isExecuting THEN cpu
    ELSE initWithPCB(cpu, registeredProcesses, PulsedProcess)

\* The process of the pulse is still on the CPU after it.
StaysOnCpu == cpu'.isExecuting /\ cpu'.currentProcess = PulsedProcess

\* The registers the pulse leaves to the process: those of the CPU, or the
\* ones saved in its process control block when it left the CPU.
ResultRegisters ==
    IF StaysOnCpu THEN cpu'
    ELSE initWithPCB(cpu', registeredProcesses', PulsedProcess)

ByteRegisters(c) ==
    /\ c.accumulator \in Bytes
    /\ c.xRegister \in Bytes
    /\ c.yRegister \in Bytes
    /\ c.instructionRegister \in Bytes
    /\ c.zFlag \in {0, 1}
    /\ c.carryFlag \in {0, 1}

\* Every read of the pulse is a read of a byte of the memory: the op code,
\* the operand of A0, A2 and A9, and the byte at the operand address of the
\* op codes that read there.
ReadsBytes ==
    /\ FetchedByte \in Bytes
    /\ FetchedByte \in {160, 162, 169}
       => readImmediate(memory, FetchAddress + 1) \in Bytes
    /\ FetchedByte \in {109, 172, 173, 174, 236, 238}
       => readImmediate(memory, OperandAddress) \in Bytes

SavedRegisters(c) ==
    <<c.programCounter, c.instructionRegister, c.accumulator, c.xRegister,
      c.yRegister, c.zFlag>>

\* The registers of the CPU after they were saved in the process control
\* block of the current process and that block was loaded.
SaveAndLoad ==
    LET k == updatePCB(Sys)
    IN SavedRegisters(initWithPCB(init(k.cpu), k.registeredProcesses,
                                  k.cpu.currentProcess))

\* The registers a process control block has from its constructor.
FreshRegisters(pcb) ==
    LET new == ProcessControlBlock(pcb.processId, pcb.startingAddress,
                                   pcb.location, pcb.priority)
    IN [pcb EXCEPT !.state = "RESIDENT"] = new

FirstInactiveBehind(d, cur) ==
    FirstTSB({a \in Addrs : /\ a[1] >= cur[1]
                            /\ TSBIndex(a) > TSBIndex(cur)
                            /\ d[a].active = 0})

\* Data of two chunks.
TwoChunks == Chars(DataBytes + 1, 120)

(***************************************************************************)
(* C35: a write of two chunks to a file of one block cur links cur to the  *)
(* first inactive block behind cur in TSB order on the tracks from that of *)
(* cur on (on a later track the search starts at sector 0, block 0), and   *)
(* fails with NoSpace only when there is no such block.                    *)
(***************************************************************************)
C35_SuccessorBlock ==
    \A f \in Filenames :
        LET w == write(disk, isFormatted, f, TwoChunks)
            before == FileChain(disk, f)
            cur == before[1]
        IN (/\ isFormatted
            /\ FileEntry(disk, f)
            /\ Len(before) = 1
            /\ cur[1] >= 1
            /\ disk[cur].header = h999)
           => /\ w.status \in {"ok", "NoSpace"}
              /\ w.status = "ok"
                 => FileChain(w.disk, f) = <<cur, FirstInactiveBehind(disk, cur)>>
              /\ w.status = "NoSpace" => FirstInactiveBehind(disk, cur) = << >>

(***************************************************************************)
(* The steps of a pulse                                                    *)
(***************************************************************************)
\* The steps the loop of pulse() takes from machine k, in order: 0 Fetch,
\* 1 Decode1, 2 Decode2, 3 Execute1, 4 Execute2, 5 WriteBack,
\* 6 InterruptCheck.
RECURSIVE pulseSteps(_)
pulseSteps(k) ==
    LET k1 == stepOnce(k)
    IN <<k.cpu.currentStep>>
           \o (IF k1.cpu.currentStep # 0 THEN pulseSteps(k1) ELSE << >>)

\* The steps of the pulse of this tick, taken after the dispatch.
StepsOfPulse == pulseSteps(tickStart(Sys, isFormatted))

\* The number of operands of an op code, with x in the X register.
OperandCount(opcode, x) ==
    CASE opcode \in {0, 138, 152, 168, 170, 234} -> 0
      [] opcode \in {160, 162, 169, 208} -> 1
      [] opcode \in {109, 141, 172, 173, 174, 236, 238} -> 2
      [] opcode = 255 -> IF x = 3 THEN 2 ELSE 0

\* The steps the op codes are said to take.
ExpectedSteps(opcode, x) ==
    CASE opcode \in {160, 162, 169} -> <<0, 1, 6>>
      [] opcode = 208 -> <<0, 1, 3, 6>>
      [] opcode = 238 -> <<0, 1, 2, 3, 4, 5, 6>>
      [] OperandCount(opcode, x) = 0 -> <<0, 1, 3, 6>>
      [] OTHER -> <<0, 1, 2, 3, 6>>

\* A pulse that fetches an op code of the instruction set and returns.
FetchesOpCode ==
    /\ PulseStep
    /\ registeredProcesses[PulsedProcess].state # "TERMINATED"
    /\ FetchedByte \in OpCodes
    /\ ret'.status = "ok"

\* The program counter behind the instruction and its operands, with the
\* branch of D0 taken from there.
PCBehind ==
    IF FetchedByte = 208
    THEN BranchTarget(PulsedPC, readImmediate(memory, FetchAddress + 1),
                      PulsedRegisters.zFlag)
    ELSE PulsedPC + 1 + OperandCount(FetchedByte, PulsedRegisters.xRegister)

\* The pulse halts the process: it executes 00, or EE on a byte 0xFF.
HaltsInPulse ==
    \/ FetchedByte = 0
    \/ FetchedByte = 238 /\ readImmediate(memory, OperandAddress) = 255

(***************************************************************************)
(* C36 as stated: the steps of a pulse are those of the op code it fetches *)
(* (Fetch, Decode1, Execute1, InterruptCheck for the op codes with no      *)
(* operand; Fetch, Decode1, InterruptCheck for A0, A2 and A9; Fetch,       *)
(* Decode1, Execute1, InterruptCheck for D0; Fetch, Decode1, Decode2,      *)
(* Execute1, InterruptCheck for the op codes with two operands other than  *)
(* EE; all seven for EE); the step is in 0..6 and is 0 before and after    *)
(* the pulse; and the program counter goes on by 1 plus the number of      *)
(* operands, before the branch of D0.                                      *)
(***************************************************************************)
C36_PipelineSteps ==
    [][FetchesOpCode
       => /\ StepsOfPulse = ExpectedSteps(FetchedByte, PulsedRegisters.xRegister)
          /\ cpu.currentStep = 0
          /\ cpu'.currentStep = 0
          /\ ResultPC = PCBehind]_vars

(***************************************************************************)
(* C36, amended: as stated for a pulse that does not halt the process.  A  *)
(* pulse that executes 00 ends after Execute1, and one in which EE finds   *)
(* the byte 0xFF ends after Execute2: the process is halted there, with no *)
(* InterruptCheck, and the registers are reset, the program counter to 0.  *)
(* The step is in 0..6 throughout and 0 before and after every pulse.      *)
(***************************************************************************)
C36_PipelineStepsUnlessHalted ==
    [][FetchesOpCode
       => /\ \A n \in 1..Len(StepsOfPulse) : StepsOfPulse[n] \in 0..6
          /\ cpu.currentStep = 0
          /\ cpu'.currentStep = 0
          /\ IF HaltsInPulse
             THEN /\ StepsOfPulse = IF FetchedByte = 0 THEN <<0, 1, 3>>
                                    ELSE <<0, 1, 2, 3, 4>>
                  /\ ResultPC = 0
                  /\ registeredProcesses'[PulsedProcess].state = "TERMINATED"
             ELSE /\ StepsOfPulse
                         = ExpectedSteps(FetchedByte, PulsedRegisters.xRegister)
                  /\ ResultPC = PCBehind]_vars

\* EE has incremented the byte 0x05 at 0x0006 in the seven steps: the
\* accumulator holds 6, as does the byte, and the program counter is 3.
C36_Witness ==
    /\ op = "tick"
    /\ cpu.isExecuting
    /\ cpu.instructionRegister = 238
    /\ cpu.accumulator = 6
    /\ cpu.programCounter = 3
    /\ cpu.currentStep = 0
    /\ readImmediate(memory,
                     registeredProcesses[cpu.currentProcess].startingAddress + 6) = 6

(***************************************************************************)
(* C37: the process ids are 0, 1, 2, ... in the order of registration with *)
(* no gap, after loads that fail as well: the i-th registered process      *)
(* (from 0) has the process id i, which is the process that run <pid> and  *)
(* kill <pid> take for pid = i.                                            *)
(***************************************************************************)
C37_ProcessIdsWithoutGaps ==
    \A i \in 1..Len(registeredProcesses) :
        registeredProcesses[i].processId = i - 1

(***************************************************************************)
(* The file operations on a disk that holds three files.  The disk is the  *)
(* one format, create a, create b, create c leave; the writes are of at    *)
(* most two chunks, so that no write runs out of blocks.                   *)
(***************************************************************************)
ThreeFiles ==
    LET d0 == format([a \in Addrs |-> Null])
        d1 == create(d0, TRUE, <<97>>).disk
        d2 == create(d1, TRUE, <<98>>).disk
    IN create(d2, TRUE, <<99>>).disk

ChainStrings == {Chars(n, 120) : n \in {0, 1, DataBytes + 1}}

InitChains ==
    /\ disk = ThreeFiles
    /\ isFormatted = TRUE
    /\ op = "create"
    /\ ret = [status |-> "ok", out |-> << >>, names |-> << >>]
    /\ nops = 0
    /\ memory = [a \in {} |-> 0]
    /\ registeredProcesses = << >>
    /\ processIdCounter = 0
    /\ memoryAccessor = [lowOrderByte |-> 0, highOrderByte |-> 0]
    /\ cpu = [Cpu EXCEPT !.isExecuting = FALSE, !.currentProcess = 0]
    /\ scheduler = CpuScheduler("ROUND ROBIN")

WriteChunks(N) ==
    \E f \in N, s \in ChainStrings :
        /\ Ready
        /\ op' = "write"
        /\ Return(write(disk, isFormatted, f, s))
        /\ UNCHANGED isFormatted

\* The names of the three files.
ChainFilenames == {<<97>>, <<98>>, <<99>>}

NextChains ==
    \/ Create(ChainFilenames)
    \/ WriteChunks(ChainFilenames)
    \/ Delete(ChainFilenames)
    \/ Copy(ChainFilenames)
    \/ Rename(ChainFilenames)

SpecChains == InitChains /\ [][NextChains]_vars

\* The active directory entries other than the master boot record, and the
\* blocks on the chain of a directory entry.
ActiveEntries(d) == {e \in DirAddrs \ {MBR} : d[e].active = 1}

EntryChain(d, e) == Range(ChainSeq(d, HeaderAddress(d[e].header), NumRecords))

(***************************************************************************)
(* C38: on a formatted disk, after create, write, delete, copy and rename, *)
(* every block on the chain of an active directory entry is active, and no *)
(* data block is on the chains of two different active directory entries.  *)
(***************************************************************************)
C38_ChainsActiveAndDisjoint ==
    isFormatted =>
        /\ \A e \in ActiveEntries(disk) :
              \A b \in EntryChain(disk, e) : disk[b].active = 1
        /\ \A e1, e2 \in ActiveEntries(disk) :
              e1 # e2 =>
                  EntryChain(disk, e1) \cap EntryChain(disk, e2) \cap DataAddrs = {}

(***************************************************************************)
(* C39: no leaked blocks: on a formatted disk every active block of the    *)
(* tracks 1.. is on the chain of an active directory entry, also after an  *)
(* overwrite of a file of several blocks, a create that fails and a write  *)
(* that fails for lack of space.                                           *)
(***************************************************************************)
C39_NoLeakedBlocks ==
    isFormatted =>
        \A b \in DataAddrs :
            disk[b].active = 1 =>
                \E e \in ActiveEntries(disk) : b \in EntryChain(disk, e)

(***************************************************************************)
(* C40: every pulse of the CPU terminates, whatever the program and the    *)
(* registers: the step loop is back at step 0 after at most the seven      *)
(* steps of an instruction, and the string loops of the system call FF     *)
(* (X = 2 and X = 3) come to an end, also when no byte 0x00 follows the    *)
(* address they start at.                                                  *)
(***************************************************************************)
C40_PulseTerminates ==
    [][PulseStep =>
          /\ ret'.status # "Diverge"
          /\ Len(StepsOfPulse) <= 7
          /\ cpu'.currentStep = 0]_vars

====
